---- MODULE Spec2Model ----
\* The preview component of src/screen/component/preview.rs as a state machine:
\* the Preview struct, its update handler (one action per Message variant),
\* the visible-range computation and the fetch task that fills the page cache.
\* With it, the file identities of src/file_manager/file.rs and the project
\* world of src/world.rs as the editing screen of src/screen/editing.rs uses
\* them, and the update handler of that screen with the messages and tasks it
\* sends.
EXTENDS Integers, Sequences, FiniteSets, TLC

VARIABLES
    zoom,             \* Preview.zoom, an f32, counted in units of 2^-27
    viewport_h,       \* Preview.viewport_h, in points
    offset,           \* Preview.offset.y, in points (offset.x is never read)
    pages_to_render,  \* Preview.pages_to_render, a pair of 0-based indices
    pages,            \* Preview.pages: None, or Some(vector of PagePreview)
    document,         \* the &PagedDocument the caller hands to update
    reloads,          \* Message::ReloadPages queued by Task::done, not yet handled
    fetching,         \* fetch tasks dispatched by Task::perform, in dispatch order
    rendered,         \* history: the fetch task whose result was delivered last
    last,             \* history: the message handled last, and what it did
    events,           \* history: how many user events the preview has received
    current_dir,      \* Editing.current_dir, the root of the project
    file_path,        \* the &PathBuf handed to id_from_path
    relative_path,    \* what get_relative_path returned for it
    file_id,          \* what id_from_path returned for it
    disk_path,        \* the path save_file_disk and delete_file_from_disk build
    typst,            \* Editing.typst, the TideWorld of the session
    heap,             \* the Files structs that exist, by address
    tasks,            \* background tasks in flight, each with the world it owns
    handled,          \* history: the operation handled last, and what the world
                      \* of the session answered before it
    current,          \* Editing.current: the buffer being edited and its file id
    buffers,          \* Editing.buffers: the open buffers by file id
    file_tree,        \* Editing.file_tree: its root and its marked paths
    pop_up,           \* Editing.pop_up
    debug,            \* Editing.debug
    handle,           \* Editing.preview.handle: the pages of the last preview
    queue,            \* messages sent with Task::done, not yet handled
    last_compile,     \* history: whether the preview requested last compiles
    split_at,         \* Editing.split_at: the positions of the two split bars
    disk              \* the files on disk: their content by path

previewVars == <<zoom, viewport_h, offset, pages_to_render, pages, document,
                 reloads, fetching, rendered, last, events>>

identityVars == <<current_dir, file_path, relative_path, file_id, disk_path>>

worldVars == <<typst, heap, tasks, handled>>

editorVars == <<current, buffers, file_tree, pop_up, debug, handle, queue, last_compile,
               split_at, disk>>

outsidePreview == <<identityVars, worldVars, editorVars>>

\* The preview without the count of events.
renderVars == <<zoom, viewport_h, offset, pages_to_render, pages, document,
                reloads, fetching, rendered, last>>

vars == <<previewVars, identityVars, worldVars, editorVars>>

-----------------------------------------------------------------------------
\* Bounds of the model.

\* Most pages of a document in FirstPreviewSpec, which takes every such document.
MaxPages == 2
\* Most fetch tasks in flight at once.
MaxInFlight == 2
\* Most ReloadPages messages queued at once.
MaxQueued == 1
\* Most user events (zoom clicks, scrolls, forced previews) in one run of Spec.
MaxEvents == 3
\* Most components of a file path, its root marker not counted.
MaxComponents == 4
\* Most background tasks that own a world at once.
MaxTasks == 1
\* The files of the directory of the user's fonts.
MaxFontFiles == 2

-----------------------------------------------------------------------------
\* f32 arithmetic. A non-negative f32 keeps 24 significant bits; every value is
\* held as an integer count of a power-of-two unit, so rounding to 24
\* significant bits of the count is rounding of the value.

ZoomOne == 2^27
Pt == 2^20

RECURSIVE Ulp(_)
Ulp(n) == IF n < 2^24 THEN 1 ELSE 2 * Ulp(n \div 2)

\* Round to nearest, ties to even.
F32RoundPos(n) ==
    LET u == Ulp(n)
        q == n \div u
        r == n % u
    IN  IF 2 * r < u THEN q * u
        ELSE IF 2 * r > u THEN (q + 1) * u
        ELSE IF q % 2 = 0 THEN q * u ELSE (q + 1) * u

F32Round(n) == IF n < 0 THEN 0 - F32RoundPos(0 - n) ELSE F32RoundPos(n)

Min(a, b) == IF a < b THEN a ELSE b
Max(a, b) == IF a > b THEN a ELSE b
Abs(a) == IF a < 0 THEN 0 - a ELSE a

\* Option<T>
None == <<>>
Some(x) == <<x>>

-----------------------------------------------------------------------------
\* Program constants.

SPACING_BETWEEN_PAGES == 15
SCROLL_RELOAD_DELAY == 50
DEFAULT_VIEWPORT_H == 1500

\* The f32 literals of the zoom handlers, in units of 2^-27.
ZoomStep == 20132660
ZoomMin == 13421773
ZoomIncLimit == 5 * 2^26
ZoomMax == 3 * ZoomOne

-----------------------------------------------------------------------------
\* Inputs.

\* A page of a PagedDocument: its frame's size in points and its content.
PageA == [height |-> 128, width |-> 96,  frame |-> "a"]
PageB == [height |-> 256, width |-> 192, frame |-> "b"]
PageC == [height |-> 128, width |-> 96,  frame |-> "c"]

\* Every document of at most MaxPages pages, as far as its geometry goes.
AllDocuments == UNION { [1..n -> {PageA, PageB}] : n \in 0..MaxPages }

\* The revisions the project compiles to during one editing session.
Documents ==
    { <<>>, <<PageA>>, <<PageC>>, <<PageA, PageB>>, <<PageA, PageA, PageB>> }

\* What a Viewport reports: absolute_offset().y and bounds().height.
ScrollOffsets == {0, 50, 300}
ViewportHeights == {100}

-----------------------------------------------------------------------------
\* PagePreview

\* render(page, scale).encode_png(): the pixels of one page at one scale.
Render(page, scale) == [frame |-> page.frame, height |-> page.height,
                        width |-> page.width, scale |-> scale]

PagePreviewEmpty(page) ==
    [bytes |-> None, height |-> page.height, width |-> page.width]

\* encode_fails: encode_png returned Err, which .ok() turns into None.
PagePreviewFetch(page, z, encode_fails) ==
    [bytes  |-> IF encode_fails THEN None ELSE Some(Render(page, 2 * z)),
     height |-> page.height,
     width  |-> page.width]

-----------------------------------------------------------------------------
\* The visible range.

\* page.frame.height().to_pt() as f32 * self.zoom, in position units: heights
\* are multiples of ZoomOne / Pt points, so the exact product is an integer.
ScaledHeight(page, z) == F32Round((page.height \div (ZoomOne \div Pt)) * z)

RECURSIVE ScanPositions(_, _, _, _)
ScanPositions(doc, z, k, off) ==
    IF k > Len(doc) THEN <<>>
    ELSE LET begin == F32Round(off + SPACING_BETWEEN_PAGES * Pt)
             end   == F32Round(begin + ScaledHeight(doc[k], z))
         IN  <<<<begin, end>>>> \o ScanPositions(doc, z, k + 1, end)

pages_positions(doc, z) == ScanPositions(doc, z, 1, 0)

\* iter().take_while(P).count(), given for each element whether P holds of it.
TakeWhileCount(holds) ==
    IF \A i \in 1..Len(holds) : holds[i] THEN Len(holds)
    ELSE (CHOOSE i \in 1..Len(holds) : ~holds[i] /\ \A j \in 1..(i - 1) : holds[j]) - 1

\* compute_pages_to_render with the comparison of start turned around.
compute_pages_to_render_StartReversed(doc, z, off, vh) ==
    LET pages_positions_ == pages_positions(doc, z)
        start == TakeWhileCount([i \in 1..Len(pages_positions_) |->
                    pages_positions_[i][2] > off * Pt])
        end   == TakeWhileCount([i \in 1..Len(pages_positions_) |->
                    pages_positions_[i][1] < F32Round(off * Pt + vh * Pt)])
    IN  <<start, end>>

compute_pages_to_render(doc, z, off, vh) ==
    LET pages_positions_ == pages_positions(doc, z)
        start == TakeWhileCount([i \in 1..Len(pages_positions_) |->
                    pages_positions_[i][2] < off * Pt])
        end   == TakeWhileCount([i \in 1..Len(pages_positions_) |->
                    pages_positions_[i][1] < F32Round(off * Pt + vh * Pt)])
    IN  <<start, end>>

\* fetch without the lower end of the range.
fetch_NoLowerEnd(range, z, doc, failed) ==
    [i \in 1..Len(doc) |->
        IF (i - 1) <= range[2]
        THEN PagePreviewFetch(doc[i], z, (i - 1) \in failed)
        ELSE PagePreviewEmpty(doc[i])]

\* fetch that gives up the pass when one page fails: no page gets its pixels.
fetch_AbortOnFailure(range, z, doc, failed) ==
    [i \in 1..Len(doc) |->
        IF (i - 1) >= range[1] /\ (i - 1) <= range[2] /\ failed = {}
        THEN PagePreviewFetch(doc[i], z, FALSE)
        ELSE PagePreviewEmpty(doc[i])]

\* fetch that returns records for the pages of the range only.
fetch_VisibleOnly(range, z, doc, failed) ==
    LET hi == Min(range[2] + 1, Len(doc))
    IN  [i \in 1..(hi - range[1]) |->
            PagePreviewFetch(doc[range[1] + i], z, (range[1] + i - 1) \in failed)]

\* The fetch task: failed is the set of indices whose PNG encoding fails.
fetch(range, z, doc, failed) ==
    [i \in 1..Len(doc) |->
        IF (i - 1) >= range[1] /\ (i - 1) <= range[2]
        THEN PagePreviewFetch(doc[i], z, (i - 1) \in failed)
        ELSE PagePreviewEmpty(doc[i])]

-----------------------------------------------------------------------------
\* The preview as Preview::new leaves it, with no document compiled yet.
PreviewIdle ==
    /\ zoom = ZoomOne
    /\ offset = 0
    /\ viewport_h = DEFAULT_VIEWPORT_H
    /\ pages_to_render = <<0, 0>>
    /\ pages = None
    /\ document = <<>>
    /\ reloads = 0
    /\ fetching = <<>>
    /\ rendered = None
    /\ last = "new"
    /\ events = 0

-----------------------------------------------------------------------------
\* File identity. A path is the sequence of its std::path components: RootDir
\* first when the path is absolute, then Normal names and ParentDir. (A CurDir
\* or a repeated separator inside a path is no component, so two PathBufs are
\* equal exactly when these sequences are.)

RootDir == "/"
ParentDir == ".."
FileNames == {"proj", "sub", "main.typ"}

IsAbsolute(path) == path # <<>> /\ path[1] = RootDir

\* Every relative path of at most n components.
RelativePaths(n) == UNION { [1..k -> FileNames \cup {ParentDir}] : k \in 0..n }

\* The paths a message or the project cache hands to the editor.
FilePaths ==
    RelativePaths(MaxComponents)
        \cup { <<RootDir>> \o rel : rel \in RelativePaths(MaxComponents) }

\* The directories a project is opened at.
ProjectRoots == { <<RootDir>>, <<RootDir, "proj">>, <<RootDir, "proj", "sub">> }

\* Path::strip_prefix: Ok(rest) when base is a component-wise prefix.
StripPrefix(path, base) ==
    IF Len(base) <= Len(path) /\ SubSeq(path, 1, Len(base)) = base
    THEN Some(SubSeq(path, Len(base) + 1, Len(path)))
    ELSE None

\* PathBuf::push and Path::join: an absolute argument replaces the path.
Push(buf, path) == IF IsAbsolute(path) THEN path ELSE buf \o path

\* get_relative_path that pushes the whole file path instead of the remainder.
get_relative_path_KeepsRoot(current_dir_, file_path_) ==
    LET relative == StripPrefix(file_path_, current_dir_)
    IN  IF relative = None THEN None
        ELSE Some(<<RootDir>> \o Tail(file_path_))

get_relative_path(current_dir_, file_path_) ==
    LET relative == StripPrefix(file_path_, current_dir_)
    IN  IF relative = None THEN None
        ELSE Some(Push(<<RootDir>>, relative[1]))

\* VirtualPath::new: the path under a root marker, with each ParentDir that
\* follows a Normal name taking that name away.
RECURSIVE VirtualPathNormalize(_, _)
VirtualPathNormalize(out, rest) ==
    IF rest = <<>> THEN out
    ELSE LET component == Head(rest)
         IN  IF component = RootDir THEN VirtualPathNormalize(out, Tail(rest))
             ELSE IF component = ParentDir
                     /\ out[Len(out)] \notin {RootDir, ParentDir}
                  THEN VirtualPathNormalize(SubSeq(out, 1, Len(out) - 1), Tail(rest))
                  ELSE VirtualPathNormalize(Append(out, component), Tail(rest))

VirtualPathNew(path) == VirtualPathNormalize(<<RootDir>>, path)

\* VirtualPath::as_rootless_path
as_rootless_path(vpath) ==
    LET stripped == StripPrefix(vpath, <<RootDir>>)
    IN  IF stripped = None THEN vpath ELSE stripped[1]

\* FileId::new(None, vpath) and FileId::new_fake(vpath)
FileIdNew(vpath) == [vpath |-> vpath, fake |-> FALSE]
FileIdNewFake(vpath) == [vpath |-> vpath, fake |-> TRUE]

id_from_path(path, root) ==
    LET relative_path_ == get_relative_path(root, path)
    IN  IF relative_path_ = None THEN None
        ELSE Some(FileIdNew(VirtualPathNew(relative_path_[1])))

\* DiskPath that joins the virtual path with its root marker.
DiskPath_KeepsRootMarker(id, dir_path) == Push(dir_path, id.vpath)

\* dir_path.join(id.vpath().as_rootless_path()) of save_file_disk and
\* delete_file_from_disk.
DiskPath(id, dir_path) == Push(dir_path, as_rootless_path(id.vpath))

\* No path was converted: the state of the identity variables while the
\* preview alone is looked at.
IdentityIdle ==
    /\ current_dir = <<RootDir, "proj">>
    /\ file_path = None
    /\ relative_path = None
    /\ file_id = None
    /\ disk_path = None

\* A path reaches the editor.
IdentityInit ==
    /\ current_dir \in ProjectRoots
    /\ file_path \in { Some(path) : path \in FilePaths }
    /\ relative_path = None
    /\ file_id = None
    /\ disk_path = None

\* TideWorld::id_from_path(file_path, current_dir), with the call of
\* get_relative_path it makes.
IdFromPath ==
    /\ file_path # None
    /\ file_id = None
    /\ relative_path' = Some(get_relative_path(current_dir, file_path[1]))
    /\ file_id' = Some(id_from_path(file_path[1], current_dir))
    /\ UNCHANGED <<current_dir, file_path, disk_path>>

\* save_file_disk or delete_file_from_disk builds the path of the id.
BuildDiskPath ==
    /\ file_id # None
    /\ file_id[1] # None
    /\ disk_path = None
    /\ disk_path' = Some(DiskPath(file_id[1][1], current_dir))
    /\ UNCHANGED <<current_dir, file_path, relative_path, file_id>>

-----------------------------------------------------------------------------
\* The project world. A String is the sequence of its lines, split at each
\* '\n' ("= B\n" is <<"= B", "">>); the Content of a text editor is its lines.

\* What the Typst files of a project hold: "= A" and "= B\n".
Texts == { <<"= A">>, <<"= B", "">> }
\* What the text editor holds when the world is reloaded from it.
Contents == { <<"= A">>, <<"= C", "">> }
\* What the other files hold.
AssetBytes == { <<"fake SVG">> }

\* Content::text: the lines joined with '\n', with a '\n' put at the end
\* unless the text ends with one.
ContentText(content) ==
    IF Len(content) >= 2 /\ content[Len(content)] = "" THEN content
    ELSE Append(content, "")

\* Source::new(id, text) and Source::replace(text)
SourceNew(id, text) == [id |-> id, text |-> text]
SourceReplace(source, text) == [source EXCEPT !.text = text]

\* The ids the operations of the world are called with.
WorldIds == { FileIdNew(<<RootDir, "main.typ">>), FileIdNew(<<RootDir, "logo.svg">>) }

\* ImportedFile
ImportedFiles ==
    { [kind |-> "TypstSource", file_id |-> id, source |-> SourceNew(id, text)] :
          id \in WorldIds, text \in Texts }
      \cup { [kind |-> "Asset", file_id |-> id, bytes |-> bytes] :
                id \in WorldIds, bytes \in AssetBytes }

\* HashMap: new, insert, remove.
EmptyMap == [key \in {} |-> key]
Put(map, key, value) ==
    [k \in DOMAIN map \cup {key} |-> IF k = key THEN value ELSE map[k]]
Remove(map, key) == [k \in DOMAIN map \ {key} |-> map[k]]

\* The addresses of the Files structs: 0 for the one of the session's world.
Addrs == 0..MaxTasks

\* The Files of a world, and the heap with other Files for that world.
FilesOf(h, world) == h[world.files][1]
WithFiles(h, world, files) == [h EXCEPT ![world.files] = Some(files)]

\* add_source that keeps the entry the id has.
add_source_KeepsEntry(h, world, id, src) ==
    WithFiles(h, world, [FilesOf(h, world) EXCEPT
        !.sources = IF id \in DOMAIN @ THEN @ ELSE Put(@, id, src)])

add_source(h, world, id, src) ==
    WithFiles(h, world, [FilesOf(h, world) EXCEPT !.sources = Put(@, id, src)])

add_asset(h, world, id, asset) ==
    WithFiles(h, world, [FilesOf(h, world) EXCEPT !.assets = Put(@, id, asset)])

add_file(h, world, file) ==
    IF file.kind = "Asset" THEN add_asset(h, world, file.file_id, file.bytes)
    ELSE add_source(h, world, file.file_id, file.source)

\* reload_source_from_content that inserts a Source for an id that has none.
reload_source_from_content_Inserts(h, world, id, content) ==
    WithFiles(h, world, [FilesOf(h, world) EXCEPT
        !.sources = Put(@, id, SourceNew(id, ContentText(content)))])

reload_source_from_content(h, world, id, content) ==
    IF id \in DOMAIN FilesOf(h, world).sources
    THEN WithFiles(h, world, [FilesOf(h, world) EXCEPT
            !.sources[id] = SourceReplace(@, ContentText(content))])
    ELSE h

\* change_main that keeps the main file when the id has no Source.
change_main_Checked(h, world, id) ==
    IF id \in DOMAIN FilesOf(h, world).sources
    THEN [world EXCEPT !.main = id] ELSE world

change_main(h, world, id) == [world EXCEPT !.main = id]

\* remove_file that removes the Source only.
remove_file_SourceOnly(h, world, id) ==
    WithFiles(h, world, [FilesOf(h, world) EXCEPT !.sources = Remove(@, id)])

remove_file(h, world, id) ==
    WithFiles(h, world, [assets  |-> Remove(FilesOf(h, world).assets, id),
                         sources |-> Remove(FilesOf(h, world).sources, id)])

\* NotFound(id.vpath().as_rootless_path().into())
NotFound(id) == [ok |-> FALSE, error |-> "NotFound", path |-> as_rootless_path(id.vpath)]
Ok(value) == [ok |-> TRUE, value |-> value]
Err(error) == [ok |-> FALSE, error |-> error]

\* World::main, World::source and World::file
main(h, world) == world.main

source(h, world, id) ==
    IF id \in DOMAIN FilesOf(h, world).sources
    THEN Ok(FilesOf(h, world).sources[id]) ELSE NotFound(id)

file(h, world, id) ==
    IF id \in DOMAIN FilesOf(h, world).assets
    THEN Ok(FilesOf(h, world).assets[id]) ELSE NotFound(id)

\* clone that hands out the Files of the world it clones.
Clone_SharesFiles(h, world, addr) == [world |-> world, heap |-> h]

\* Clone for TideWorld: the clone, with its own Files at addr, and the heap
\* that holds them.
Clone(h, world, addr) ==
    [world |-> [main |-> world.main, fonts |-> world.fonts, files |-> addr],
     heap  |-> [h EXCEPT ![addr] = Some([assets  |-> FilesOf(h, world).assets,
                                         sources |-> FilesOf(h, world).sources])]]

\* The fonts of a world.  An entry of the directory of the user's fonts is
\* one that read_dir cannot read, a file that cannot be read, a file that is
\* no font, a font, or a collection of two faces.
DirEntries == { "unreadable entry", "unreadable file", "not a font", "font", "collection" }

\* What get_fonts_path and read_dir give: None when there is no directory
\* to read, else its entries.
FontDirs == {None} \cup { Some(entries) :
                entries \in UNION { [1..n -> DirEntries] : n \in 0..MaxFontFiles } }

\* default_fonts: the eight bundled fonts, one face each.
default_fonts ==
    << "LibertinusSerif-Regular", "LibertinusSerif-Bold", "LibertinusSerif-Italic",
       "LibertinusSerif-BoldItalic", "LibertinusSerif-Semibold", "LibertinusMath-Regular",
       "LibertinusSerifInitials-Regular", "NewCMMath-Regular" >>

\* Font::iter(bytes) for the file at position i: the faces that parse.
FontIter(entry, i) ==
    IF entry = "font" THEN << [file |-> i, face |-> 0] >>
    ELSE IF entry = "collection" THEN << [file |-> i, face |-> 0], [file |-> i, face |-> 1] >>
    ELSE <<>>

\* load_fonts from entry i on: the fonts, or the panic of
\* path.expect("Can't read this path").
RECURSIVE LoadFontsFrom(_, _)
LoadFontsFrom(entries, i) ==
    IF i > Len(entries) THEN Ok(<<>>)
    ELSE IF entries[i] = "unreadable entry" THEN Err("panic: Can't read this path")
    ELSE LET rest == LoadFontsFrom(entries, i + 1)
         IN  IF ~rest.ok THEN rest
             ELSE IF entries[i] = "unreadable file" THEN rest
             ELSE Ok(FontIter(entries[i], i) \o rest.value)

load_fonts(entries) == LoadFontsFrom(entries, 1)

\* TideWorld::new(main, None) where the directory of the user's fonts is
\* font_dir: the world, with its Files at address 0, or the panic.
TideWorldNew(main_, font_dir) ==
    LET user_fonts == IF font_dir = None THEN Ok(<<>>) ELSE load_fonts(font_dir[1])
    IN  IF ~user_fonts.ok THEN user_fonts
        ELSE Ok([main |-> main_, fonts |-> default_fonts \o user_fonts.value, files |-> 0])

\* init_world of the editing screen: TideWorld::new(main_id, None), with no
\* fonts of the user.
InitWorld == TideWorldNew(FileIdNewFake(VirtualPathNew(<<"main.typ">>)), None).value
InitHeap == [a \in Addrs |-> IF a = 0 THEN Some([assets |-> EmptyMap, sources |-> EmptyMap])
                             ELSE None]

\* The world as Editing::new leaves it.
WorldIdle ==
    /\ typst = InitWorld
    /\ heap = InitHeap
    /\ tasks = <<>>
    /\ handled = [op |-> "new", before |-> None]

\* The id of a Typst file that is in no project.
GhostId == FileIdNew(<<RootDir, "ghost.typ">>)

\* The ids a world is asked for.
ViewIds == WorldIds \cup {InitWorld.main, GhostId}

\* What a world answers: main(), and source(id) and file(id) for every id.
View(h, world) ==
    [main   |-> main(h, world),
     source |-> [id \in ViewIds |-> source(h, world, id)],
     file   |-> [id \in ViewIds |-> file(h, world, id)]]

\* What the world of the session answers.
Answers == View(heap, typst)

\* One operation on the world of the session.
WorldOp ==
    /\ events < MaxEvents
    /\ events' = events + 1
    /\ UNCHANGED <<renderVars, identityVars, editorVars>>

AddSource(id, text) ==
    /\ heap' = add_source(heap, typst, id, SourceNew(id, text))
    /\ handled' = [op |-> "add_source", id |-> id, text |-> text, before |-> Answers]
    /\ UNCHANGED <<typst, tasks>>

AddAsset(id, bytes) ==
    /\ heap' = add_asset(heap, typst, id, bytes)
    /\ handled' = [op |-> "add_asset", id |-> id, before |-> Answers]
    /\ UNCHANGED <<typst, tasks>>

AddFile(imported) ==
    /\ heap' = add_file(heap, typst, imported)
    /\ handled' = [op |-> "add_file", id |-> imported.file_id, kind |-> imported.kind,
                   before |-> Answers]
    /\ UNCHANGED <<typst, tasks>>

ReloadSourceFromContent(id, content) ==
    /\ heap' = reload_source_from_content(heap, typst, id, content)
    /\ handled' = [op |-> "reload_source_from_content", id |-> id, content |-> content,
                   before |-> Answers]
    /\ UNCHANGED <<typst, tasks>>

RemoveFile(id) ==
    /\ heap' = remove_file(heap, typst, id)
    /\ handled' = [op |-> "remove_file", id |-> id, before |-> Answers]
    /\ UNCHANGED <<typst, tasks>>

ChangeMain(id) ==
    /\ typst' = change_main(heap, typst, id)
    /\ handled' = [op |-> "change_main", id |-> id, before |-> Answers]
    /\ UNCHANGED <<heap, tasks>>

\* Task::perform(task(self.typst.clone()), ..): a task is dispatched with a
\* clone of the world; seen is what the clone answers at that moment.
DispatchTask ==
    /\ \E addr \in Addrs :
          /\ heap[addr] = None
          /\ \A a \in Addrs : heap[a] = None => addr <= a
          /\ LET cloned == Clone(heap, typst, addr)
             IN  /\ heap' = cloned.heap
                 /\ tasks' = Append(tasks, [kind    |-> "preview_svg",
                                            world   |-> cloned.world,
                                            seen    |-> View(cloned.heap, cloned.world),
                                            message |-> None])
    /\ handled' = [op |-> "clone", before |-> Answers]
    /\ UNCHANGED typst

\* The task at position i finishes: it has read its world and drops it.
TaskDone(i) ==
    /\ i \in 1..Len(tasks)
    /\ tasks' = [j \in 1..(Len(tasks) - 1) |-> IF j < i THEN tasks[j] ELSE tasks[j + 1]]
    /\ heap' = [a \in Addrs |->
                  IF a = tasks[i].world.files /\ a # typst.files THEN None ELSE heap[a]]
    /\ handled' = [op |-> "task done", before |-> Answers]
    /\ UNCHANGED <<typst, events, renderVars, identityVars, editorVars>>

-----------------------------------------------------------------------------
\* The editing session: its files.

ProjectDir == <<RootDir, "proj">>
MainPath == ProjectDir \o <<"main.typ">>
LogoPath == ProjectDir \o <<"logo.svg">>
GhostPath == ProjectDir \o <<"ghost.typ">>
OutsidePath == <<RootDir, "other", "main.typ">>

\* The files on disk when the session starts.
DiskFiles ==
    (MainPath :> <<"= A">>) @@ (LogoPath :> <<"fake SVG">>) @@ (OutsidePath :> <<"= B", "">>)

\* The paths the file tree, the dialogs and the project cache hand over.
ClickPaths == { MainPath, LogoPath, GhostPath, OutsidePath }

\* Path::extension of the file names in use.
Extensions ==
    ("main.typ" :> "typ") @@ ("ghost.typ" :> "typ") @@ ("logo.svg" :> "svg")

Extension(path) ==
    IF path # <<>> /\ path[Len(path)] \in DOMAIN Extensions
    THEN Some(Extensions[path[Len(path)]]) ELSE None

\* load_file and load_source_file: the file of a path as an ImportedFile.
load_file(d, path, root) ==
    IF Extension(path) = None THEN Err("Import error")
    ELSE IF path \notin DOMAIN d THEN Err("NotFound")
    ELSE IF get_relative_path(root, path) = None THEN Err("NotFound")
    ELSE LET id == FileIdNew(VirtualPathNew(get_relative_path(root, path)[1]))
         IN  IF Extension(path) = Some("typ")
             THEN Ok([kind |-> "TypstSource", file_id |-> id,
                      source |-> SourceNew(id, d[path])])
             ELSE Ok([kind |-> "Asset", file_id |-> id, bytes |-> d[path]])

\* recurse_compatible_files: every file below a directory.
recurse_compatible_files(d, dir) ==
    { path \in DOMAIN d : Len(path) > Len(dir) /\ SubSeq(path, 1, Len(dir)) = dir }

\* load_repo: the files below the directory that load_file accepts.
load_repo(d, dir, root) ==
    { load_file(d, path, root).value :
        path \in { q \in recurse_compatible_files(d, dir) : load_file(d, q, root).ok } }

\* for imported_file in imported_files { self.typst.add_file(imported_file) }
RECURSIVE AddFiles(_, _, _)
AddFiles(h, world, imported_files) ==
    IF imported_files = {} THEN h
    ELSE LET imported == CHOOSE f \in imported_files : TRUE
         IN  AddFiles(add_file(h, world, imported), world, imported_files \ {imported})

\* Buffer::new, Buffer::from_path and Clone for Buffer
BufferNew == [content |-> <<"">>, is_saved |-> FALSE]
BufferFromPath(d, path) ==
    IF path \in DOMAIN d THEN Ok([content |-> d[path], is_saved |-> TRUE])
    ELSE Err("NotFound")
BufferClone(buffer) == [buffer EXCEPT !.content = ContentText(@)]

\* The file names in the order sort_by and sort_by_key leave them.
NameOrder == <<"ghost.typ", "logo.svg", "main.typ">>

\* Dir::init_files: the files directly in the directory, sorted by name.
init_files(d, dir_path) ==
    LET present == SelectSeq(NameOrder, LAMBDA name : Append(dir_path, name) \in DOMAIN d)
    IN  [i \in 1..Len(present) |-> Append(dir_path, present[i])]

\* files.sort_by(|a, b| a.name.cmp(&b.name)): a stable sort.
SortByName(files) ==
    LET named(k) == SelectSeq(files, LAMBDA entry : entry[Len(entry)] = NameOrder[k])
    IN  named(1) \o named(2) \o named(3)

\* FileTree::new and Dir::new: the root directory is folded and its files
\* are read when it is first opened.
FileTreeNew(root_path) ==
    [root |-> root_path, is_open |-> FALSE, files |-> None,
     main_path |-> None, selected_path |-> None, clicked_path |-> None]

\* FileTree::fold_dir and Dir::update of the root directory
FileTreeFold(tree, d) ==
    [tree EXCEPT !.is_open = ~@,
                 !.files = IF ~tree.is_open /\ tree.files = None
                           THEN Some(init_files(d, tree.root)) ELSE @]

\* FileTree::add_file and Dir::add_file
FileTreeAddFile(tree, path) ==
    IF tree.files # None
    THEN [tree EXCEPT !.files = Some(SortByName(Append(tree.files[1], path)))]
    ELSE tree

\* FileTree::refresh and Dir::reload_files
FileTreeRefresh(tree, d) ==
    IF tree.files # None THEN [tree EXCEPT !.files = Some(init_files(d, tree.root))] ELSE tree

\* PopUpType
Warning == <<"Warning">>
Error == <<"Error">>
Confirm(id) == <<"Confirm", id>>

\* PopUpElement::new and DebugZone::new
PopUpElementNew(pop_type, title, details) ==
    [pop_type |-> pop_type, title |-> title, details |-> details]
DebugZoneNew(typst_errors) == [typst_errors |-> typst_errors]

\* compile_document that compiles a main file without Source to no page.
compile_document_EmptyWhenMissing(h, world) ==
    LET resolved == source(h, world, main(h, world))
    IN  IF ~resolved.ok THEN Ok(<<>>)
        ELSE Ok(SelectSeq(resolved.value.text, LAMBDA line : line # ""))

\* compile_document: the main source is resolved first, and its text
\* compiles to a document with one page for each non-empty line.
compile_document(h, world) ==
    LET resolved == source(h, world, main(h, world))
    IN  IF ~resolved.ok
        THEN Err([kind |-> "CompilationError", cause |-> resolved])
        ELSE Ok(SelectSeq(resolved.value.text, LAMBDA line : line # ""))

\* preview_svg: the pages of the compiled document as SVG strings.
preview_svg(h, world) ==
    LET compiled == compile_document(h, world)
    IN  IF compiled.ok
        THEN Ok([i \in 1..Len(compiled.value) |-> [svg |-> compiled.value[i]]])
        ELSE compiled

\* The session as Editing::new leaves it.
EditorIdle ==
    /\ current = [buffer |-> BufferNew, file_id |-> None]
    /\ buffers = EmptyMap
    /\ file_tree = FileTreeNew(ProjectDir)
    /\ pop_up = None
    /\ debug = None
    /\ handle = None
    /\ queue = <<>>
    /\ last_compile = None
    /\ split_at = <<250, 800>>
    /\ disk = DiskFiles

-----------------------------------------------------------------------------
\* The editing session: Editing::update.  A message comes from the user,
\* from a Task::done of an earlier handler (queue), or from a task that
\* finishes (tasks).  Each handler is given the queue q, the tasks ts and
\* the heap h that are left once its message has been taken.

RemoveAt(s, i) == [j \in 1..(Len(s) - 1) |-> IF j < i THEN s[j] ELSE s[j + 1]]

EditorMessage(msg, arg) == [msg |-> msg, arg |-> arg]

\* Task::perform of a function that reads no world
PerformTask(ts, kind, message) ==
    Append(ts, [kind |-> kind, world |-> None, seen |-> None, message |-> message])

\* The heap once a task has dropped its world.
Dropped(h, task) ==
    [a \in Addrs |-> IF task.world # None /\ a = task.world.files /\ a # typst.files
                     THEN None ELSE h[a]]

\* Display for ExportError
ErrToString(err) == [display |-> "Can't compile document: ", msg |-> err.cause]

\* update_source that stores the content in the buffer map only.
update_source_BuffersOnly(h, world, bufs, id, buffer) ==
    [heap    |-> h,
     buffers |-> IF id \in DOMAIN bufs
                 THEN [bufs EXCEPT ![id].content = buffer.content] ELSE bufs]

\* update_source
update_source(h, world, bufs, id, buffer) ==
    [heap    |-> reload_source_from_content(h, world, id, buffer.content),
     buffers |-> IF id \in DOMAIN bufs
                 THEN [bufs EXCEPT ![id].content = buffer.content] ELSE bufs]

\* if let Some(id) = self.current_file_id() { self.update_source(id, self.current_buffer().clone()) }
UpdateCurrentSource(h) ==
    IF current.file_id # None
    THEN update_source(h, typst, buffers, current.file_id[1], BufferClone(current.buffer))
    ELSE [heap |-> h, buffers |-> buffers]

\* FileTree::change_main, change_selected and change_clicked
FileTreeChangeMain(tree, path) == [tree EXCEPT !.main_path = Some(path)]
FileTreeChangeSelected(tree, path) == [tree EXCEPT !.selected_path = Some(path)]
FileTreeChangeClicked(tree, path) == [tree EXCEPT !.clicked_path = path]

CachedProject(main_, q, ts, h) ==
    /\ queue' = IF main_ # None THEN Append(q, EditorMessage("ChangeMainFile", main_[1])) ELSE q
    /\ tasks' = ts
    /\ heap' = h
    /\ handled' = [op |-> "CachedProject", main |-> main_]
    /\ UNCHANGED <<typst, current, buffers, file_tree, pop_up, debug, handle, disk, last_compile,
                   identityVars, split_at>>

\* ShowPopUp that replaces the pop-up on display.
ShowPopUp_Replaces(pop_up_element, q, ts, h) ==
    /\ pop_up' = Some(pop_up_element)
    /\ queue' = q
    /\ tasks' = ts
    /\ heap' = h
    /\ handled' = [op |-> "ShowPopUp", element |-> pop_up_element]
    /\ UNCHANGED <<typst, current, buffers, file_tree, debug, handle, disk, last_compile,
                   identityVars, split_at>>

ShowPopUp(pop_up_element, q, ts, h) ==
    /\ pop_up' = IF pop_up = None THEN Some(pop_up_element) ELSE pop_up
    /\ queue' = q
    /\ tasks' = ts
    /\ heap' = h
    /\ handled' = [op |-> "ShowPopUp", element |-> pop_up_element]
    /\ UNCHANGED <<typst, current, buffers, file_tree, debug, handle, disk, last_compile,
                   identityVars, split_at>>

HidePopUp(q, ts, h) ==
    /\ pop_up' = None
    /\ queue' = q
    /\ tasks' = ts
    /\ heap' = h
    /\ handled' = [op |-> "HidePopUp"]
    /\ UNCHANGED <<typst, current, buffers, file_tree, debug, handle, disk, last_compile,
                   identityVars, split_at>>

ShowErrors(debug_zone, q, ts, h) ==
    /\ debug' = Some(debug_zone)
    /\ queue' = q
    /\ tasks' = ts
    /\ heap' = h
    /\ handled' = [op |-> "ShowErrors", zone |-> debug_zone]
    /\ UNCHANGED <<typst, current, buffers, file_tree, pop_up, handle, disk,
                   last_compile, identityVars, split_at>>

HideErrors(q, ts, h) ==
    /\ debug' = None
    /\ queue' = q
    /\ tasks' = ts
    /\ heap' = h
    /\ handled' = [op |-> "HideErrors"]
    /\ UNCHANGED <<typst, current, buffers, file_tree, pop_up, handle, disk,
                   last_compile, identityVars, split_at>>

\* An action of the text editor: an edit leaves the content it is given,
\* any other action (a move of the cursor) leaves the content as it is.
ActionPerformed(action, q, ts, h) ==
    /\ current' = IF action.is_edit
                  THEN [current EXCEPT !.buffer.content = action.content,
                                       !.buffer.is_saved = FALSE]
                  ELSE current
    /\ queue' = q
    /\ tasks' = ts
    /\ heap' = h
    /\ handled' = [op |-> "ActionPerformed", action |-> action]
    /\ UNCHANGED <<typst, buffers, file_tree, pop_up, debug, handle, disk, last_compile,
                   identityVars, split_at>>

\* result is what preview_svg returned for the world whose answers were seen
\* when the task was dispatched.
SvgGenerated(result, seen, q, ts, h) ==
    /\ IF result.ok
       THEN /\ tasks' = PerformTask(ts, "svg_handles",
                                    EditorMessage("PreviewLoaded", result.value))
            /\ queue' = q
       ELSE /\ tasks' = ts
            /\ queue' = Append(q, EditorMessage("ShowErrors",
                                                DebugZoneNew(ErrToString(result.error))))
    /\ heap' = h
    /\ handled' = [op |-> "SvgGenerated", result |-> result, seen |-> seen]
    /\ UNCHANGED <<typst, current, buffers, file_tree, pop_up, debug, handle, disk, last_compile,
                   identityVars, split_at>>

PreviewLoaded(svg_handles, q, ts, h) ==
    /\ handle' = Some(svg_handles)
    /\ queue' = Append(q, EditorMessage("HideErrors", None))
    /\ tasks' = ts
    /\ heap' = h
    /\ handled' = [op |-> "PreviewLoaded"]
    /\ UNCHANGED <<typst, current, buffers, file_tree, pop_up, debug, disk, last_compile,
                   identityVars, split_at>>

\* toolbar::Message::ForcePreview
ToolBarForcePreview(q, ts, h) ==
    LET updated == UpdateCurrentSource(h)
    IN  /\ \E addr \in Addrs :
              /\ updated.heap[addr] = None
              /\ \A a \in Addrs : updated.heap[a] = None => addr <= a
              /\ LET cloned == Clone(updated.heap, typst, addr)
                 IN  /\ heap' = cloned.heap
                     /\ last_compile' = Some(preview_svg(cloned.heap, cloned.world).ok)
                     /\ tasks' = Append(ts, [kind    |-> "preview_svg",
                                             world   |-> cloned.world,
                                             seen    |-> View(cloned.heap, cloned.world),
                                             message |-> None])
        /\ buffers' = updated.buffers
        /\ queue' = q
        /\ handled' = [op |-> "ForcePreview"]
        /\ UNCHANGED <<typst, current, file_tree, pop_up, debug, handle, disk,
                       identityVars, split_at>>

\* toolbar::Message::OpenProject(Some(path), main)
OpenProject(path, main_, q, ts, h) ==
    /\ current_dir' = path
    /\ file_tree' = FileTreeNew(path)
    /\ heap' = AddFiles(h, typst, load_repo(disk, path, path))
    /\ tasks' = PerformTask(ts, "cache_project", EditorMessage("CachedProject", main_))
    /\ queue' = q
    /\ handled' = [op |-> "OpenProject", path |-> path, main |-> main_]
    /\ UNCHANGED <<typst, current, buffers, pop_up, debug, handle, disk, last_compile,
                   file_path, relative_path, file_id, disk_path, split_at>>

\* ChangeCurrentFile that leaves the current file without update_source.
ChangeCurrentFile_NoFlush(path, q, ts, h) ==
    LET id == id_from_path(path, current_dir)
        updated == [heap |-> h, buffers |-> buffers]
    IN  /\ IF id = None
           THEN /\ heap' = h
                /\ queue' = q
                /\ UNCHANGED <<current, buffers, file_tree>>
           ELSE /\ heap' = updated.heap
                /\ IF id[1] \in DOMAIN updated.buffers
                   THEN /\ current' = [buffer  |-> BufferClone(updated.buffers[id[1]]),
                                       file_id |-> id]
                        /\ file_tree' = FileTreeChangeSelected(file_tree, path)
                        /\ buffers' = updated.buffers
                        /\ queue' = q
                   ELSE /\ IF BufferFromPath(disk, path).ok
                           THEN /\ buffers' = Put(updated.buffers, id[1],
                                                  BufferFromPath(disk, path).value)
                                /\ queue' = Append(q, EditorMessage("ChangeCurrentFile", path))
                           ELSE /\ buffers' = updated.buffers
                                /\ queue' = Append(q, EditorMessage("ShowPopUp",
                                      PopUpElementNew(Warning, "Can't open file", path)))
                        /\ UNCHANGED <<current, file_tree>>
        /\ tasks' = ts
        /\ handled' = [op |-> "ChangeCurrentFile", path |-> path]
        /\ UNCHANGED <<typst, pop_up, debug, handle, disk, last_compile, identityVars, split_at>>

\* file_tree::Message::ChangeCurrentFile(path)
ChangeCurrentFile(path, q, ts, h) ==
    LET id == id_from_path(path, current_dir)
        updated == UpdateCurrentSource(h)
    IN  /\ IF id = None
           THEN /\ heap' = h
                /\ queue' = q
                /\ UNCHANGED <<current, buffers, file_tree>>
           ELSE /\ heap' = updated.heap
                /\ IF id[1] \in DOMAIN updated.buffers
                   THEN /\ current' = [buffer  |-> BufferClone(updated.buffers[id[1]]),
                                       file_id |-> id]
                        /\ file_tree' = FileTreeChangeSelected(file_tree, path)
                        /\ buffers' = updated.buffers
                        /\ queue' = q
                   ELSE /\ IF BufferFromPath(disk, path).ok
                           THEN /\ buffers' = Put(updated.buffers, id[1],
                                                  BufferFromPath(disk, path).value)
                                /\ queue' = Append(q, EditorMessage("ChangeCurrentFile", path))
                           ELSE /\ buffers' = updated.buffers
                                /\ queue' = Append(q, EditorMessage("ShowPopUp",
                                      PopUpElementNew(Warning, "Can't open file", path)))
                        /\ UNCHANGED <<current, file_tree>>
        /\ tasks' = ts
        /\ handled' = [op |-> "ChangeCurrentFile", path |-> path]
        /\ UNCHANGED <<typst, pop_up, debug, handle, disk, last_compile, identityVars, split_at>>

\* file_tree::Message::ChangeMainFile(path)
ChangeMainFile(path, q, ts, h) ==
    LET new_main_id == id_from_path(path, current_dir)
    IN  /\ IF new_main_id # None
           THEN /\ typst' = change_main(h, typst, new_main_id[1])
                /\ file_tree' = FileTreeChangeMain(file_tree, path)
                /\ tasks' = PerformTask(ts, "cache_project",
                                        EditorMessage("CachedProject", None))
                /\ queue' = Append(q, EditorMessage("FileExit", None))
           ELSE /\ queue' = Append(q, EditorMessage("ShowPopUp",
                        PopUpElementNew(Warning, "Can't change main file", path)))
                /\ tasks' = ts
                /\ UNCHANGED <<typst, file_tree>>
        /\ heap' = h
        /\ handled' = [op |-> "ChangeMainFile", path |-> path, dir |-> current_dir]
        /\ UNCHANGED <<current, buffers, pop_up, debug, handle, disk, last_compile,
                       identityVars, split_at>>

\* file_tree::Message::FileExit
FileExit(q, ts, h) ==
    /\ file_tree' = FileTreeChangeClicked(file_tree, None)
    /\ queue' = q
    /\ tasks' = ts
    /\ heap' = h
    /\ handled' = [op |-> "FileExit"]
    /\ UNCHANGED <<typst, current, buffers, pop_up, debug, handle, disk, last_compile,
                   identityVars, split_at>>

\* file_tree::Message::FileClick(path)
FileClick(path, q, ts, h) ==
    /\ file_tree' = FileTreeChangeClicked(file_tree, Some(path))
    /\ queue' = q
    /\ tasks' = ts
    /\ heap' = h
    /\ handled' = [op |-> "FileClick", path |-> path]
    /\ UNCHANGED <<typst, current, buffers, pop_up, debug, handle, disk, last_compile,
                   identityVars, split_at>>

\* delete_file_from_disk: fs::remove_file of the path of the id; removed is
\* whether the file system lets the file go.
delete_file_from_disk(d, id, dir_path, removed) ==
    LET path == DiskPath(id, dir_path)
    IN  IF path \notin DOMAIN d THEN Err("NotFound")
        ELSE IF ~removed THEN Err("PermissionDenied")
        ELSE Ok(Remove(d, path))

\* delete_file that closes the buffer and forgets the file before the disk
\* is asked.
delete_file_MemoryFirst(h, id, removed) ==
    LET deleted == delete_file_from_disk(disk, id, current_dir, removed)
    IN  [result    |-> IF deleted.ok THEN Ok(None) ELSE deleted,
         disk      |-> IF deleted.ok THEN deleted.value ELSE disk,
         buffers   |-> Remove(buffers, id),
         heap      |-> remove_file(h, typst, id),
         file_tree |-> file_tree]

\* Editing::delete_file: the disk first, then the buffer, the world and the
\* file tree.
delete_file(h, id, removed) ==
    LET deleted == delete_file_from_disk(disk, id, current_dir, removed)
    IN  IF ~deleted.ok
        THEN [result |-> deleted, disk |-> disk, buffers |-> buffers, heap |-> h,
              file_tree |-> file_tree]
        ELSE [result    |-> Ok(None),
              disk      |-> deleted.value,
              buffers   |-> Remove(buffers, id),
              heap      |-> remove_file(h, typst, id),
              file_tree |-> FileTreeRefresh(file_tree, deleted.value)]

\* Editing::upload_file: read, copy into the project, load, add.
upload_file(h, path) ==
    LET target == Append(current_dir, path[Len(path)])
        copied == Put(disk, target, disk[path])
        imported_file == load_file(copied, target, current_dir)
    IN  IF path \notin DOMAIN disk
        THEN [result |-> Err("NotFound"), disk |-> disk, heap |-> h, file_tree |-> file_tree]
        ELSE IF ~imported_file.ok
        THEN [result |-> imported_file, disk |-> copied, heap |-> h, file_tree |-> file_tree]
        ELSE [result    |-> Ok(None),
              disk      |-> copied,
              heap      |-> add_file(h, typst, imported_file.value),
              file_tree |-> FileTreeAddFile(file_tree, target)]

\* save_file_disk: fs::write of the text of the content; written is whether
\* the file system takes it.
save_file_disk(d, id, content, dir_path, written) ==
    IF written THEN Ok(Put(d, DiskPath(id, dir_path), ContentText(content)))
    ELSE Err("PermissionDenied")

\* file_tree::Message::DirClick(path)
DirClick(path, q, ts, h) ==
    /\ file_tree' = IF path = file_tree.root THEN FileTreeFold(file_tree, disk) ELSE file_tree
    /\ queue' = q
    /\ tasks' = ts
    /\ heap' = h
    /\ handled' = [op |-> "DirClick", path |-> path]
    /\ UNCHANGED <<typst, current, buffers, pop_up, debug, handle, disk, last_compile,
                   identityVars, split_at>>

\* file_tree::Message::DeleteFile(path)
FileTreeDeleteFile(path, q, ts, h) ==
    LET id == id_from_path(path, current_dir)
    IN  /\ queue' = IF id # None
                    THEN Append(q, EditorMessage("ShowPopUp",
                             PopUpElementNew(Confirm(id[1]), "Want to delete file", path)))
                    ELSE Append(q, EditorMessage("FileExit", None))
        /\ tasks' = ts
        /\ heap' = h
        /\ handled' = [op |-> "file_tree::DeleteFile", path |-> path]
        /\ UNCHANGED <<typst, current, buffers, file_tree, pop_up, debug, handle, disk,
                       last_compile, identityVars, split_at>>

\* pop_up::Message::DeleteFile(id)
PopUpDeleteFile(id, removed, q, ts, h) ==
    LET done == delete_file(h, id, removed)
    IN  /\ disk' = done.disk
        /\ buffers' = done.buffers
        /\ heap' = done.heap
        /\ file_tree' = done.file_tree
        /\ queue' = IF done.result.ok
                    THEN Append(q, EditorMessage("HidePopUp", None))
                    ELSE Append(q, EditorMessage("ShowPopUp",
                             PopUpElementNew(Error, "Can't delete file!",
                                             <<done.result.error>>)))
        /\ tasks' = ts
        /\ handled' = [op |-> "pop_up::DeleteFile", id |-> id, result |-> done.result]
        /\ UNCHANGED <<typst, current, pop_up, debug, handle, last_compile, identityVars,
                       split_at>>

\* self.upload_file(&path) and the message that follows it
UploadChosen(chosen, q, ts, h) ==
    LET uploaded == upload_file(h, chosen[1])
    IN  /\ disk' = uploaded.disk
        /\ heap' = uploaded.heap
        /\ file_tree' = uploaded.file_tree
        /\ queue' = IF uploaded.result.ok
                    THEN Append(q, EditorMessage("FileImported", Ok(chosen[1])))
                    ELSE Append(q, EditorMessage("ShowPopUp",
                             PopUpElementNew(Error, "Can't upload file!",
                                             <<uploaded.result.error>>)))
        /\ tasks' = ts
        /\ handled' = [op |-> "Upload", chosen |-> chosen]
        /\ UNCHANGED <<typst, current, buffers, pop_up, debug, handle, last_compile,
                       identityVars, split_at>>

\* Upload that copies whatever the project directory holds.
Upload_Overwrites(chosen, q, ts, h) == UploadChosen(chosen, q, ts, h)

\* toolbar::Message::Upload(upload_type, import_path): chosen is the path the
\* file dialog returns.
Upload(chosen, q, ts, h) ==
    IF chosen # None /\ Append(current_dir, chosen[1][Len(chosen[1])]) \notin DOMAIN disk
    THEN UploadChosen(chosen, q, ts, h)
    ELSE /\ queue' = IF chosen = None THEN q
                     ELSE Append(q, EditorMessage("ShowPopUp",
                              PopUpElementNew(Error, "Can't upload file",
                                  <<"File with the same name already exists in the project.">>)))
         /\ tasks' = ts
         /\ heap' = h
         /\ handled' = [op |-> "Upload", chosen |-> chosen]
         /\ UNCHANGED <<typst, current, buffers, file_tree, pop_up, debug, handle, disk,
                        last_compile, identityVars, split_at>>

\* toolbar::Message::FileImported(result)
FileImported(result, q, ts, h) ==
    /\ queue' = IF result.ok THEN q
                ELSE Append(q, EditorMessage("ShowPopUp",
                         PopUpElementNew(Error, "File not imported!", <<result.error>>)))
    /\ tasks' = ts
    /\ heap' = h
    /\ handled' = [op |-> "FileImported", result |-> result]
    /\ UNCHANGED <<typst, current, buffers, file_tree, pop_up, debug, handle, disk, last_compile,
                   identityVars, split_at>>

\* Task::perform(save_file_disk(id, self.current_buffer().clone(), self.current_dir.clone()), ..)
SaveTask(ts) ==
    IF current.file_id # None
    THEN PerformTask(ts, "save_file_disk",
                     [id      |-> current.file_id[1],
                      content |-> BufferClone(current.buffer).content,
                      dir     |-> current_dir])
    ELSE ts

\* toolbar::Message::SaveFile(update)
ToolBarSaveFile(update, q, ts, h) ==
    LET updated == IF update THEN UpdateCurrentSource(h) ELSE [heap |-> h, buffers |-> buffers]
    IN  /\ heap' = updated.heap
        /\ buffers' = updated.buffers
        /\ tasks' = SaveTask(ts)
        /\ queue' = q
        /\ handled' = [op |-> "SaveFile", update |-> update]
        /\ UNCHANGED <<typst, current, file_tree, pop_up, debug, handle, disk, last_compile,
                       identityVars, split_at>>

\* The save task finishes, and toolbar::Message::FileSaved(result)
FileSaved(save, written, q, ts, h) ==
    LET result == save_file_disk(disk, save.id, save.content, save.dir, written)
    IN  /\ disk' = IF result.ok THEN result.value ELSE disk
        /\ current' = IF result.ok THEN [current EXCEPT !.buffer.is_saved = TRUE] ELSE current
        /\ queue' = IF result.ok THEN q
                    ELSE Append(q, EditorMessage("ShowPopUp",
                             PopUpElementNew(Error, "File not saved!", <<result.error>>)))
        /\ tasks' = ts
        /\ heap' = h
        /\ handled' = [op |-> "FileSaved", save |-> save, ok |-> result.ok]
        /\ UNCHANGED <<typst, buffers, file_tree, pop_up, debug, handle, last_compile,
                       identityVars, split_at>>

\* Ctrl+S: Binding::Sequence of ForcePreview and SaveFile(false), both
\* published by the one key press and handled one after the other.
CtrlS(q, ts, h) ==
    LET updated == UpdateCurrentSource(h)
    IN  /\ \E addr \in Addrs :
              /\ updated.heap[addr] = None
              /\ \A a \in Addrs : updated.heap[a] = None => addr <= a
              /\ LET cloned == Clone(updated.heap, typst, addr)
                 IN  /\ heap' = cloned.heap
                     /\ last_compile' = Some(preview_svg(cloned.heap, cloned.world).ok)
                     /\ tasks' = SaveTask(Append(ts, [kind    |-> "preview_svg",
                                                      world   |-> cloned.world,
                                                      seen    |-> View(cloned.heap, cloned.world),
                                                      message |-> None]))
        /\ buffers' = updated.buffers
        /\ queue' = q
        /\ handled' = [op |-> "Ctrl+S"]
        /\ UNCHANGED <<typst, current, file_tree, pop_up, debug, handle, disk,
                       identityVars, split_at>>

\* Message::Autocomplete: the buffer is flushed before the completions are
\* computed; the completions themselves are left out.
Autocomplete(q, ts, h) ==
    LET updated == UpdateCurrentSource(h)
    IN  /\ heap' = updated.heap
        /\ buffers' = updated.buffers
        /\ queue' = q
        /\ tasks' = ts
        /\ handled' = [op |-> "Autocomplete"]
        /\ UNCHANGED <<typst, current, file_tree, pop_up, debug, handle, disk, last_compile,
                       identityVars, split_at>>

\* The handler of a message sent with Task::done or by a task.
Handle(m, q, ts, h) ==
    \/ m.msg = "CachedProject" /\ CachedProject(m.arg, q, ts, h)
    \/ m.msg = "ChangeMainFile" /\ ChangeMainFile(m.arg, q, ts, h)
    \/ m.msg = "ChangeCurrentFile" /\ ChangeCurrentFile(m.arg, q, ts, h)
    \/ m.msg = "FileExit" /\ FileExit(q, ts, h)
    \/ m.msg = "ShowPopUp" /\ ShowPopUp(m.arg, q, ts, h)
    \/ m.msg = "ShowErrors" /\ ShowErrors(m.arg, q, ts, h)
    \/ m.msg = "HideErrors" /\ HideErrors(q, ts, h)
    \/ m.msg = "PreviewLoaded" /\ PreviewLoaded(m.arg, q, ts, h)
    \/ m.msg = "HidePopUp" /\ HidePopUp(q, ts, h)
    \/ m.msg = "FileImported" /\ FileImported(m.arg, q, ts, h)

\* The projects that are opened, each with the main file its cache names.
OpenedProjects ==
    { <<ProjectDir, None>>, <<ProjectDir, Some(MainPath)>>, <<ProjectDir, Some(GhostPath)>>,
      <<<<RootDir, "other">>, None>> }

\* The actions of the text editor.
Actions == { [is_edit |-> TRUE, content |-> <<"= C", "">>], [is_edit |-> FALSE] }

\* A message of the user: a click or a key.
UserMessage ==
    /\ events < MaxEvents
    /\ events' = events + 1
    /\ UNCHANGED renderVars
    /\ \/ \E project \in OpenedProjects :
             OpenProject(project[1], project[2], queue, tasks, heap)
       \/ \E path \in ClickPaths : ChangeMainFile(path, queue, tasks, heap)
       \/ \E path \in ClickPaths : ChangeCurrentFile(path, queue, tasks, heap)
       \/ FileClick(MainPath, queue, tasks, heap)
       \/ \E action \in Actions : ActionPerformed(action, queue, tasks, heap)
       \/ ToolBarForcePreview(queue, tasks, heap)
       \/ pop_up # None /\ HidePopUp(queue, tasks, heap)
       \/ debug # None /\ HideErrors(queue, tasks, heap)

\* A message sent with Task::done arrives.
QueuedMessage ==
    /\ \E i \in 1..Len(queue) : Handle(queue[i], RemoveAt(queue, i), tasks, heap)
    /\ UNCHANGED <<events, renderVars>>

\* A task finishes and its message arrives.
TaskMessage ==
    /\ \E i \in 1..Len(tasks) :
          IF tasks[i].kind = "preview_svg"
          THEN SvgGenerated(preview_svg(heap, tasks[i].world), tasks[i].seen,
                            queue, RemoveAt(tasks, i), Dropped(heap, tasks[i]))
          ELSE IF tasks[i].kind = "save_file_disk"
          THEN \E written \in BOOLEAN :
                  FileSaved(tasks[i].message, written, queue, RemoveAt(tasks, i), heap)
          ELSE Handle(tasks[i].message, queue, RemoveAt(tasks, i), heap)
    /\ UNCHANGED <<events, renderVars>>

EditingInit == PreviewIdle /\ IdentityIdle /\ WorldIdle /\ EditorIdle

EditingNext == UserMessage \/ QueuedMessage \/ TaskMessage

EditingSpec == EditingInit /\ [][EditingNext]_vars

\* The session once the project directory has been opened and cached with no
\* main file: OpenProject(ProjectDir, None) and CachedProject(None) handled.
ProjectOpened ==
    /\ PreviewIdle /\ IdentityIdle /\ EditorIdle
    /\ typst = InitWorld
    /\ heap = AddFiles(InitHeap, InitWorld, load_repo(DiskFiles, ProjectDir, ProjectDir))
    /\ tasks = <<>>
    /\ handled = [op |-> "CachedProject", main |-> None]

\* The files the upload dialog returns and the files the tree deletes.
UploadPaths == { OutsidePath, LogoPath, GhostPath }
DeletePaths == { MainPath, LogoPath, GhostPath }

\* A click on the file tree, the upload button or the pop-up.
FilesMessage ==
    /\ events < MaxEvents
    /\ events' = events + 1
    /\ UNCHANGED renderVars
    /\ \/ DirClick(ProjectDir, queue, tasks, heap)
       \/ ChangeCurrentFile(MainPath, queue, tasks, heap)
       \/ \E path \in UploadPaths : Upload(Some(path), queue, tasks, heap)
       \/ \E path \in DeletePaths : FileTreeDeleteFile(path, queue, tasks, heap)
       \/ /\ pop_up # None
          /\ pop_up[1].pop_type[1] = "Confirm"
          /\ \E removed \in BOOLEAN :
                PopUpDeleteFile(pop_up[1].pop_type[2], removed, queue, tasks, heap)
       \/ pop_up # None /\ HidePopUp(queue, tasks, heap)

FilesNext == FilesMessage \/ QueuedMessage

FilesSpec == ProjectOpened /\ [][FilesNext]_vars

\* A key in the text editor or a click on the toolbar.
SavingMessage ==
    /\ events < MaxEvents
    /\ events' = events + 1
    /\ UNCHANGED renderVars
    /\ \/ \E path \in {MainPath, LogoPath} : ChangeCurrentFile(path, queue, tasks, heap)
       \/ \E action \in Actions : ActionPerformed(action, queue, tasks, heap)
       \/ ToolBarForcePreview(queue, tasks, heap)
       \/ ToolBarSaveFile(TRUE, queue, tasks, heap)
       \/ CtrlS(queue, tasks, heap)
       \/ Autocomplete(queue, tasks, heap)

SavingNext == SavingMessage \/ QueuedMessage \/ TaskMessage

SavingSpec == ProjectOpened /\ [][SavingNext]_vars

-----------------------------------------------------------------------------
\* The recent projects: recent.cache, a text file with one line for each
\* project, "root_path,main" or "root_path,?".  A line is the sequence of
\* the pieces that its commas separate.

MAX_CACHED_PROJECTS == 5

\* env_path.join("recent.cache")
CachePath == <<RootDir, "env", "recent.cache">>

\* ProjectCache::new
ProjectCacheNew(root_path, main_) == [root_path |-> root_path, main |-> main_]

\* path.display().to_string(), as the pieces between its commas: a name of
\* the path with a comma in it ends a piece.
RECURSIVE Display(_)
Display(path) ==
    IF path = <<>> THEN << <<>> >>
    ELSE LET rest == Display(SubSeq(path, 1, Len(path) - 1))
             name == path[Len(path)]
         IN  IF name = "g,h"
             THEN SubSeq(rest, 1, Len(rest) - 1)
                      \o << Append(rest[Len(rest)], "g"), <<"h">> >>
             ELSE SubSeq(rest, 1, Len(rest) - 1) \o << Append(rest[Len(rest)], name) >>

\* format!["{},{}", root_path, main or "?"]
FormatProject(p) ==
    Display(p.root_path) \o (IF p.main = None THEN << <<"?">> >> ELSE Display(p.main[1]))

\* The ProjectCache of a line of the file.
ParseProject(elements) ==
    ProjectCacheNew(elements[1],
                    IF Len(elements) < 2 \/ elements[2] = <<"?">> THEN None
                    ELSE Some(elements[2]))

\* get_recent_paths: the projects of the file, none when it cannot be read.
get_recent_paths(d) ==
    IF CachePath \in DOMAIN d
    THEN [i \in 1..Len(d[CachePath]) |-> ParseProject(d[CachePath][i])]
    ELSE <<>>

\* cache_project: the list it writes, from the list it read.
CachedProjects(projects, project) ==
    LET popped == IF Len(projects) > MAX_CACHED_PROJECTS - 1
                  THEN SubSeq(projects, 1, Len(projects) - 1) ELSE projects
        retained == SelectSeq(popped, LAMBDA p : p.root_path # project.root_path)
    IN  <<project>> \o retained

\* cache_project: the disk it leaves; written tells whether the file could
\* be created and written.
cache_project(d, project, written) ==
    IF written
    THEN LET projects == CachedProjects(get_recent_paths(d), project)
         IN  [path \in DOMAIN d \cup {CachePath} |->
                 IF path = CachePath
                 THEN [i \in 1..Len(projects) |-> FormatProject(projects[i])]
                 ELSE d[path]]
    ELSE d

\* The projects that are cached: those of the test, and one below a
\* directory with a comma in its name.
Projects ==
    { ProjectCacheNew(<<RootDir, "project_a">>, None),
      ProjectCacheNew(<<RootDir, "project_b">>, Some(<<RootDir, "project_b", "main.typ">>)),
      ProjectCacheNew(<<RootDir, "project_c">>, None),
      ProjectCacheNew(<<RootDir, "project_d">>, Some(<<RootDir, "project_d", "hello.typ">>)),
      ProjectCacheNew(<<RootDir, "project_e">>, None),
      ProjectCacheNew(<<RootDir, "project_f">>, None),
      ProjectCacheNew(<<RootDir, "g,h">>, None) }

\* One call of cache_project runs to its end.
CacheProject(project, written) ==
    /\ disk' = cache_project(disk, project, written)
    /\ handled' = [op |-> "cache_project", project |-> project, written |-> written,
                   before |-> get_recent_paths(disk)]
    /\ UNCHANGED <<previewVars, identityVars, typst, heap, tasks,
                   current, buffers, file_tree, pop_up, debug, handle, queue,
                   last_compile, split_at>>

CacheInit == PreviewIdle /\ IdentityIdle /\ WorldIdle /\ EditorIdle

CacheNext == \E project \in Projects, written \in BOOLEAN : CacheProject(project, written)

CacheSpec == CacheInit /\ [][CacheNext]_vars

-----------------------------------------------------------------------------
\* The fonts of the world: the session is built where the directory of the
\* user's fonts is font_dir, and then the operations of the world are called.

\* The process has panicked.
Panicked == handled.op = "TideWorld::new" /\ ~handled.result.ok

EditingNew(font_dir) ==
    /\ handled.op = "new"
    /\ LET result == TideWorldNew(InitWorld.main, font_dir)
       IN  /\ typst' = IF result.ok THEN result.value ELSE typst
           /\ handled' = [op |-> "TideWorld::new", font_dir |-> font_dir, result |-> result]
    /\ UNCHANGED <<heap, tasks, events, renderVars, identityVars, editorVars>>

FontInit == PreviewIdle /\ IdentityIdle /\ WorldIdle /\ EditorIdle

FontNext ==
    \/ \E font_dir \in FontDirs : EditingNew(font_dir)
    \/ ~Panicked /\ handled.op # "new" /\ WorldOp /\ \E imported \in ImportedFiles : AddFile(imported)
    \/ ~Panicked /\ handled.op # "new" /\ WorldOp /\ \E id \in WorldIds : RemoveFile(id)
    \/ ~Panicked /\ handled.op # "new" /\ WorldOp /\ \E id \in WorldIds : ChangeMain(id)
    \/ ~Panicked /\ handled.op # "new" /\ WorldOp /\ DispatchTask
    \/ ~Panicked /\ handled.op # "new" /\ \E i \in 1..Len(tasks) : TaskDone(i)

FontSpec == FontInit /\ [][FontNext]_vars

WorldInit == PreviewIdle /\ IdentityIdle /\ WorldIdle /\ EditorIdle

WorldNext ==
    \/ WorldOp /\ \E id \in WorldIds, text \in Texts : AddSource(id, text)
    \/ WorldOp /\ \E id \in WorldIds, bytes \in AssetBytes : AddAsset(id, bytes)
    \/ WorldOp /\ \E imported \in ImportedFiles : AddFile(imported)
    \/ WorldOp /\ \E id \in WorldIds, content \in Contents : ReloadSourceFromContent(id, content)
    \/ WorldOp /\ \E id \in WorldIds : RemoveFile(id)
    \/ WorldOp /\ \E id \in WorldIds : ChangeMain(id)
    \/ WorldOp /\ DispatchTask
    \/ \E i \in 1..Len(tasks) : TaskDone(i)

WorldSpec == WorldInit /\ [][WorldNext]_vars

-----------------------------------------------------------------------------
\* Preview::new, with the document of the caller.

Init ==
    /\ zoom = ZoomOne
    /\ offset = 0
    /\ viewport_h = DEFAULT_VIEWPORT_H
    /\ pages_to_render = <<0, 0>>
    /\ pages = None
    /\ document \in Documents
    /\ reloads = 0
    /\ fetching = <<>>
    /\ rendered = None
    /\ last = "new"
    /\ events = 0
    /\ IdentityIdle
    /\ WorldIdle
    /\ EditorIdle

-----------------------------------------------------------------------------
\* Preview::update, one action per Message variant.

\* (self.zoom + 0.15).min(3.0) and (self.zoom - 0.15).max(0.1)
ZoomIn(z) == Min(F32Round(z + ZoomStep), ZoomMax)
ZoomOut(z) == Max(F32Round(z - ZoomStep), ZoomMin)

\* IncrementZoom that stops at the clamp value 3.0 instead of at 2.5.
IncrementZoom_LimitAtMax ==
    /\ IF zoom < ZoomMax
       THEN /\ reloads < MaxQueued
            /\ zoom' = ZoomIn(zoom)
            /\ reloads' = reloads + 1
       ELSE UNCHANGED <<zoom, reloads>>
    /\ last' = "IncrementZoom"
    /\ UNCHANGED <<viewport_h, offset, pages_to_render, pages, document, fetching, rendered>>

IncrementZoom ==
    /\ IF zoom < ZoomIncLimit
       THEN /\ reloads < MaxQueued
            /\ zoom' = ZoomIn(zoom)
            /\ reloads' = reloads + 1
       ELSE UNCHANGED <<zoom, reloads>>
    /\ last' = "IncrementZoom"
    /\ UNCHANGED <<viewport_h, offset, pages_to_render, pages, document, fetching, rendered>>

DecrementZoom ==
    /\ IF zoom > ZoomMin
       THEN /\ reloads < MaxQueued
            /\ zoom' = ZoomOut(zoom)
            /\ reloads' = reloads + 1
       ELSE UNCHANGED <<zoom, reloads>>
    /\ last' = "DecrementZoom"
    /\ UNCHANGED <<viewport_h, offset, pages_to_render, pages, document, fetching, rendered>>

\* Scrolled that reloads at the threshold already.
Scrolled_AtThreshold(new_offset, new_viewport_h) ==
    /\ LET has_to_reload ==
               Abs(F32Round(new_offset * Pt - offset * Pt)) >= SCROLL_RELOAD_DELAY * Pt
       IN  IF has_to_reload
           THEN /\ reloads < MaxQueued
                /\ offset' = new_offset
                /\ viewport_h' = new_viewport_h
                /\ reloads' = reloads + 1
           ELSE UNCHANGED <<offset, viewport_h, reloads>>
    /\ last' = "Scrolled"
    /\ UNCHANGED <<zoom, pages_to_render, pages, document, fetching, rendered>>

Scrolled(new_offset, new_viewport_h) ==
    /\ LET has_to_reload ==
               Abs(F32Round(new_offset * Pt - offset * Pt)) > SCROLL_RELOAD_DELAY * Pt
       IN  IF has_to_reload
           THEN /\ reloads < MaxQueued
                /\ offset' = new_offset
                /\ viewport_h' = new_viewport_h
                /\ reloads' = reloads + 1
           ELSE UNCHANGED <<offset, viewport_h, reloads>>
    /\ last' = "Scrolled"
    /\ UNCHANGED <<zoom, pages_to_render, pages, document, fetching, rendered>>

\* The task record of a fetch dispatched now for a range.
FetchTask(range) ==
    [pages_to_render |-> range, zoom |-> zoom, document |-> document,
     failed |-> {}, overtaken |-> FALSE]

\* ReloadPages that performs the reload whether or not the range changed.
ReloadPages_Always ==
    /\ reloads > 0
    /\ reloads' = reloads - 1
    /\ LET new_index == compute_pages_to_render(document, zoom, offset, viewport_h)
       IN  /\ Len(fetching) < MaxInFlight
           /\ pages_to_render' = new_index
           /\ fetching' = Append(fetching, FetchTask(new_index))
           /\ last' = "ReloadPages: perform reload"
    /\ UNCHANGED <<zoom, viewport_h, offset, pages, document, rendered>>

\* ReloadPages that hands the task the range stored before.
ReloadPages_FetchStale ==
    /\ reloads > 0
    /\ reloads' = reloads - 1
    /\ LET new_index == compute_pages_to_render(document, zoom, offset, viewport_h)
       IN  IF new_index # pages_to_render
           THEN /\ Len(fetching) < MaxInFlight
                /\ pages_to_render' = new_index
                /\ fetching' = Append(fetching, FetchTask(pages_to_render))
                /\ last' = "ReloadPages: perform reload"
           ELSE /\ UNCHANGED <<pages_to_render, fetching>>
                /\ last' = "ReloadPages: none"
    /\ UNCHANGED <<zoom, viewport_h, offset, pages, document, rendered>>

ReloadPages ==
    /\ reloads > 0
    /\ reloads' = reloads - 1
    /\ LET new_index == compute_pages_to_render(document, zoom, offset, viewport_h)
       IN  IF new_index # pages_to_render
           THEN /\ Len(fetching) < MaxInFlight
                /\ pages_to_render' = new_index
                /\ fetching' = Append(fetching, FetchTask(new_index))
                /\ last' = "ReloadPages: perform reload"
           ELSE /\ UNCHANGED <<pages_to_render, fetching>>
                /\ last' = "ReloadPages: none"
    /\ UNCHANGED <<zoom, viewport_h, offset, pages, document, rendered>>

\* The indices for which a task calls PagePreview::fetch.
Rasterized(task) ==
    { k \in 0..(Len(task.document) - 1) :
         k >= task.pages_to_render[1] /\ k <= task.pages_to_render[2] }

\* The tasks left in flight when the task at position i finishes.
StillFetching(i) ==
    [j \in 1..(Len(fetching) - 1) |->
        IF j < i THEN [fetching[j] EXCEPT !.overtaken = TRUE]
        ELSE fetching[j + 1]]

\* PagesReloaded that drops the result of an overtaken task.
PagesReloaded_DropOvertaken(i, failed) ==
    /\ i \in 1..Len(fetching)
    /\ LET task == fetching[i]
       IN  /\ failed \subseteq Rasterized(task)
           /\ pages' = IF task.overtaken THEN pages
                       ELSE Some(fetch(task.pages_to_render, task.zoom, task.document, failed))
           /\ rendered' = Some([task EXCEPT !.failed = failed])
           /\ last' = IF task.overtaken THEN "PagesReloaded: overtaken"
                      ELSE "PagesReloaded"
    /\ fetching' = StillFetching(i)
    /\ UNCHANGED <<zoom, viewport_h, offset, pages_to_render, document, reloads>>

\* The fetch task at position i of the tasks in flight finishes and its
\* Message::PagesReloaded is handled. Tasks finish in any order; a task left
\* behind by one dispatched after it is marked overtaken.
PagesReloaded(i, failed) ==
    /\ i \in 1..Len(fetching)
    /\ LET task == fetching[i]
       IN  /\ failed \subseteq Rasterized(task)
           /\ pages' = Some(fetch(task.pages_to_render, task.zoom, task.document, failed))
           /\ rendered' = Some([task EXCEPT !.failed = failed])
           /\ last' = IF task.overtaken THEN "PagesReloaded: overtaken"
                      ELSE "PagesReloaded"
    /\ fetching' = StillFetching(i)
    /\ UNCHANGED <<zoom, viewport_h, offset, pages_to_render, document, reloads>>

\* The caller compiles a new document and forces a preview: the next update
\* gets the new document and a ReloadPages is sent.
ForcePreview(doc) ==
    /\ reloads < MaxQueued
    /\ document' = doc
    /\ reloads' = reloads + 1
    /\ last' = "ForcePreview"
    /\ UNCHANGED <<zoom, viewport_h, offset, pages_to_render, pages, fetching, rendered>>

\* A user event reaches the preview.
UserEvent ==
    /\ events < MaxEvents
    /\ events' = events + 1
    /\ UNCHANGED outsidePreview

Next ==
    \/ UserEvent /\ IncrementZoom
    \/ UserEvent /\ DecrementZoom
    \/ UserEvent /\ \E o \in ScrollOffsets, h \in ViewportHeights : Scrolled(o, h)
    \/ UserEvent /\ \E doc \in Documents : ForcePreview(doc)
    \/ ReloadPages /\ UNCHANGED <<events, outsidePreview>>
    \/ /\ \E i \in 1..Len(fetching) :
             \E failed \in SUBSET Rasterized(fetching[i]) : PagesReloaded(i, failed)
       /\ UNCHANGED <<events, outsidePreview>>

Spec == Init /\ [][Next]_vars

\* The zoom buttons alone, pressed any number of times on one document.
ZoomNext ==
    \/ IncrementZoom /\ UNCHANGED <<events, outsidePreview>>
    \/ DecrementZoom /\ UNCHANGED <<events, outsidePreview>>
    \/ ReloadPages /\ UNCHANGED <<events, outsidePreview>>
    \/ /\ \E i \in 1..Len(fetching) :
             \E failed \in SUBSET Rasterized(fetching[i]) : PagesReloaded(i, failed)
       /\ UNCHANGED <<events, outsidePreview>>

ZoomSpec == Init /\ [][ZoomNext]_vars

\* The first preview of a document: the zoom buttons and the scrollable were
\* used any number of times while the document was empty (every ReloadPages
\* then computes (0, 0) and dispatches nothing), and a compile now forces the
\* preview of a document.
RECURSIVE ZoomClosure(_)
ZoomClosure(S) ==
    LET T == S \cup { ZoomIn(z) : z \in { y \in S : y < ZoomIncLimit } }
               \cup { ZoomOut(z) : z \in { y \in S : y > ZoomMin } }
    IN  IF T = S THEN S ELSE ZoomClosure(T)

ReachableZooms == ZoomClosure({ZoomOne})

FirstPreviewInit ==
    /\ zoom \in ReachableZooms
    /\ \E view \in {<<0, DEFAULT_VIEWPORT_H>>} \cup (ScrollOffsets \X ViewportHeights) :
          /\ offset = view[1]
          /\ viewport_h = view[2]
    /\ pages_to_render = <<0, 0>>
    /\ pages = None
    /\ document \in AllDocuments
    /\ reloads = 1
    /\ fetching = <<>>
    /\ rendered = None
    /\ last = "ForcePreview"
    /\ events = 0
    /\ IdentityIdle
    /\ WorldIdle
    /\ EditorIdle

FirstPreviewNext ==
    \/ ReloadPages /\ UNCHANGED <<events, outsidePreview>>
    \/ /\ \E i \in 1..Len(fetching) :
             \E failed \in SUBSET Rasterized(fetching[i]) : PagesReloaded(i, failed)
       /\ UNCHANGED <<events, outsidePreview>>

FirstPreviewSpec == FirstPreviewInit /\ [][FirstPreviewNext]_vars

\* The scrollable alone, moved any number of times: what the Viewport
\* reported last is kept in handled.
ScrollReports == { <<0, 100>>, <<50, 200>>, <<51, 100>>, <<101, 200>> }

ScrollNext ==
    \/ /\ \E view \in ScrollReports :
             /\ Scrolled(view[1], view[2])
             /\ handled' = [op |-> "Scrolled", new_offset |-> view[1],
                                               new_viewport_h |-> view[2]]
       /\ UNCHANGED <<events, identityVars, typst, heap, tasks, editorVars>>
    \/ ReloadPages /\ UNCHANGED <<events, outsidePreview>>
    \/ /\ \E i \in 1..Len(fetching) :
             \E failed \in SUBSET Rasterized(fetching[i]) : PagesReloaded(i, failed)
       /\ UNCHANGED <<events, outsidePreview>>

ScrollSpec == Init /\ [][ScrollNext]_vars

\* f32::clamp: assert!(min <= max) panics, otherwise the value is brought
\* into min..max by comparisons alone, so no rounding takes place.
clamp(self, min, max) ==
    IF min > max THEN Err("panic: min > max")
    ELSE Ok(IF self < min THEN min ELSE IF self > max THEN max ELSE self)

\* A split bar was dragged while a clamp of an earlier drag had panicked: the
\* program is gone.
ResizePanicked == handled.op \in {"ResizeTree", "ResizePreview"} /\ ~handled.result.ok

\* ResizeTree whose upper bound is 500 whatever the preview split is.
ResizeTree_FixedBounds(split) ==
    LET result == clamp(split, 100, 500)
    IN  /\ ~ResizePanicked
        /\ split_at' = IF result.ok THEN <<result.value, split_at[2]>> ELSE split_at
        /\ handled' = [op |-> "ResizeTree", split_at |-> split, result |-> result]
        /\ UNCHANGED <<events, previewVars, identityVars, typst, heap, tasks, current, buffers,
                       file_tree, pop_up, debug, handle, queue, last_compile, disk>>

\* Message::ResizeTree(split_at)
ResizeTree(split) ==
    LET result == clamp(split, 100, Min(split_at[2], 500))
    IN  /\ ~ResizePanicked
        /\ split_at' = IF result.ok THEN <<result.value, split_at[2]>> ELSE split_at
        /\ handled' = [op |-> "ResizeTree", split_at |-> split, result |-> result]
        /\ UNCHANGED <<events, previewVars, identityVars, typst, heap, tasks, current, buffers,
                       file_tree, pop_up, debug, handle, queue, last_compile, disk>>

\* Message::ResizePreview(split_at)
ResizePreview(split) ==
    LET result == clamp(split, Max(split_at[1], 200), 1500)
    IN  /\ ~ResizePanicked
        /\ split_at' = IF result.ok THEN <<split_at[1], result.value>> ELSE split_at
        /\ handled' = [op |-> "ResizePreview", split_at |-> split, result |-> result]
        /\ UNCHANGED <<events, previewVars, identityVars, typst, heap, tasks, current, buffers,
                       file_tree, pop_up, debug, handle, queue, last_compile, disk>>

\* The split bars alone, dragged any number of times to any of these
\* positions, which lie below, on, between and above the four limits.
SplitPositions == { 50 * k : k \in (0 - 1)..32 } \union { 99, 101, 199, 201, 499, 501, 1499, 1501 }

ResizeNext ==
    \/ \E split \in SplitPositions : ResizeTree(split)
    \/ \E split \in SplitPositions : ResizePreview(split)

ResizeSpec == EditingInit /\ [][ResizeNext]_vars

\* A path is mapped to a FileId and the id back to a path on disk.
FileIdentityInit == PreviewIdle /\ IdentityInit /\ WorldIdle /\ EditorIdle

FileIdentityNext ==
    \/ IdFromPath /\ UNCHANGED <<previewVars, worldVars, editorVars>>
    \/ BuildDiskPath /\ UNCHANGED <<previewVars, worldVars, editorVars>>

FileIdentitySpec == FileIdentityInit /\ [][FileIdentityNext]_vars

-----------------------------------------------------------------------------
\* Notions the properties share.

\* The 0-based indices of the pages of a document.
IndicesOf(doc) == 0..(Len(doc) - 1)

\* The indices a range names, both ends included.
InRange(range, doc) == { i \in IndicesOf(doc) : i >= range[1] /\ i <= range[2] }

\* The pages whose vertical extent meets the viewport [off, off + vh].
VisiblePages(doc, z, off, vh) ==
    LET pos == pages_positions(doc, z)
    IN  { i \in IndicesOf(doc) :
            /\ pos[i + 1][2] >= off * Pt
            /\ pos[i + 1][1] < F32Round(off * Pt + vh * Pt) }

SetMax(S) == CHOOSE x \in S : \A y \in S : y <= x

\* No message is queued and no fetch task is in flight.
Quiescent == reloads = 0 /\ fetching = <<>>

\* The range ReloadPages computes in the current state.
CurrentRange == compute_pages_to_render(document, zoom, offset, viewport_h)

-----------------------------------------------------------------------------
\* ReloadPages was the message handled last.
Reloaded == last \in {"ReloadPages: perform reload", "ReloadPages: none"}

\* C1: for a non-empty document the pages first_index..last_index returned by
\* compute_pages_to_render (and kept in pages_to_render by ReloadPages) are
\* exactly the pages that meet the viewport, and last_index is the index of
\* the last such page.
C1_RangeIsExactlyVisible ==
    (document # <<>> /\ Reloaded) =>
        LET visible == VisiblePages(document, zoom, offset, viewport_h)
        IN  /\ pages_to_render = CurrentRange
            /\ InRange(CurrentRange, document) = visible
            /\ visible # {} => CurrentRange[2] = SetMax(visible)

\* Scenario A: a 2-page document at zoom 1.0, offset 0, in a viewport lower
\* than the first page.
ScenarioA ==
    /\ Len(document) = 2
    /\ zoom = ZoomOne
    /\ offset = 0
    /\ viewport_h < document[1].height

\* C2: in Scenario A a handled ReloadPages has computed the range (0, 0), and
\* the render it dispatches rasterizes page 0 only and leaves page 1 a
\* placeholder with its width and height.
C2_ScenarioA ==
    (ScenarioA /\ last = "ReloadPages: perform reload") =>
        LET task == fetching[Len(fetching)]
            result == fetch(task.pages_to_render, task.zoom, task.document, {})
        IN  /\ pages_to_render = <<0, 0>>
            /\ result[1].bytes # None
            /\ result[2] = PagePreviewEmpty(document[2])

\* Scenario B: the same document and zoom, scrolled past the end of page 0,
\* with the reload and the render of the scroll completed.
ScenarioB ==
    /\ Len(document) = 2
    /\ zoom = ZoomOne
    /\ offset * Pt > pages_positions(document, zoom)[1][2]
    /\ Quiescent
    /\ last = "PagesReloaded"
    /\ pages = Some(fetch(pages_to_render, zoom, document, {}))

\* C3: at the end of Scenario B the visible range is (1, 1), page 1 has pixels
\* and page 0 is a placeholder of its geometry.
C3_ScenarioB ==
    ScenarioB =>
        /\ pages_to_render = <<1, 1>>
        /\ pages[1][2].bytes # None
        /\ pages[1][1] = PagePreviewEmpty(document[1])

\* C4: a ReloadPages handled when the computed range equals pages_to_render
\* dispatches no fetch task (so nothing is rasterized) and leaves
\* pages_to_render and the page cache as they were.
C4_NoRedundantRender ==
    [][ (reloads' < reloads /\ CurrentRange = pages_to_render)
            => UNCHANGED <<fetching, pages, pages_to_render>> ]_vars

\* A ReloadPages found the range of the rendered cache unchanged.
C4_Witness ==
    /\ last = "ReloadPages: none"
    /\ pages # None
    /\ CurrentRange = pages_to_render

\* The record of page i describes page i of doc and has no pixels.
IsPlaceholderOf(record, page) ==
    /\ record.bytes = None
    /\ record.height = page.height /\ record.height # 0
    /\ record.width = page.width /\ record.width # 0

\* C5 as stated: whenever the page cache is present, every record outside
\* pages_to_render is a placeholder with the geometry of its page of the
\* current document.
C5_PlaceholderInvariant ==
    pages # None =>
        \A i \in IndicesOf(pages[1]) :
            i \notin InRange(pages_to_render, pages[1]) =>
                /\ i \in IndicesOf(document)
                /\ IsPlaceholderOf(pages[1][i + 1], document[i + 1])

\* C5 amended: whenever the page cache is present, it has one record per page
\* of the document its render was dispatched with, and every record outside
\* the range that render was dispatched with is a placeholder with the
\* geometry of its page of that document.
C5_PlaceholderOfOwnRender ==
    pages # None =>
        /\ rendered # None
        /\ Len(pages[1]) = Len(rendered[1].document)
        /\ \A i \in IndicesOf(pages[1]) :
              i \notin InRange(rendered[1].pages_to_render, pages[1]) =>
                  IsPlaceholderOf(pages[1][i + 1], rendered[1].document[i + 1])

\* The cache holds placeholders of a render whose range is no longer
\* pages_to_render.
C5_Witness ==
    /\ pages # None
    /\ rendered[1].pages_to_render # pages_to_render
    /\ \E i \in IndicesOf(pages[1]) :
          /\ i \notin InRange(rendered[1].pages_to_render, pages[1])
          /\ i \in InRange(pages_to_render, pages[1])

\* C6: once the reload of a zoom change and its render are done, every page
\* of the cache that has pixels was rasterized at the current zoom.
C6_RenderedAtCurrentZoom ==
    (Quiescent /\ pages # None) =>
        \A i \in IndicesOf(pages[1]) :
            pages[1][i + 1].bytes # None =>
                pages[1][i + 1].bytes[1].scale = 2 * zoom

\* C7: once the reload of a forced preview and its render are done, the
\* cache holds the records of the current document: one per page, with the
\* page's geometry, and pixels only of the page's own content.
C7_CacheOfCurrentDocument ==
    (Quiescent /\ pages # None) =>
        /\ Len(pages[1]) = Len(document)
        /\ \A i \in IndicesOf(pages[1]) :
              /\ pages[1][i + 1].height = document[i + 1].height
              /\ pages[1][i + 1].width = document[i + 1].width
              /\ pages[1][i + 1].bytes # None =>
                    pages[1][i + 1].bytes[1].frame = document[i + 1].frame

\* C8: when the PagesReloaded of a task arrives after that of a task
\* dispatched later, its result replaces the page cache all the same, and
\* pages_to_render and zoom stay those of the later dispatches.
C8_StaleResultLands ==
    [][ (Len(fetching') < Len(fetching) /\ last' = "PagesReloaded: overtaken")
            => /\ \E i \in 1..Len(fetching) :
                     /\ fetching[i].overtaken
                     /\ fetching' = StillFetching(i)
                     /\ pages' = Some(fetch(fetching[i].pages_to_render, fetching[i].zoom,
                                            fetching[i].document, rendered'[1].failed))
               /\ UNCHANGED <<pages_to_render, zoom>> ]_vars

\* The cache holds the result of an overtaken task, rendered for another
\* range and another zoom than the preview now has.
C8_Witness ==
    /\ last = "PagesReloaded: overtaken"
    /\ pages = Some(fetch(rendered[1].pages_to_render, rendered[1].zoom,
                          rendered[1].document, rendered[1].failed))
    /\ rendered[1].pages_to_render # pages_to_render
    /\ rendered[1].zoom # zoom

\* Offsets at which the range is probed.
ProbeOffsets == {0, 100, 150, 300, 500}

FirstIndexAt(off) == compute_pages_to_render(document, zoom, off, viewport_h)[1]

\* C9: with the document, the zoom and the viewport height fixed, first_index
\* never decreases when the scroll offset increases.
C9_FirstIndexMonotone ==
    LET first_index == [o \in ProbeOffsets |-> FirstIndexAt(o)]
    IN  \A o1, o2 \in ProbeOffsets :
            o1 <= o2 => first_index[o1] <= first_index[o2]

\* A reload computed a first_index above the one of offset 0.
C9_Witness ==
    /\ last = "ReloadPages: perform reload"
    /\ pages_to_render[1] = FirstIndexAt(offset)
    /\ FirstIndexAt(0) < FirstIndexAt(offset)

\* C10: the zoom stays within [0.1, 3.0] (0.1 rounds up to the f32 ZoomMin),
\* and an IncrementZoom at zoom >= 2.5 or a DecrementZoom at zoom <= 0.1
\* changes no zoom and queues no ReloadPages.
C10_ZoomBounds ==
    /\ [](ZoomMin <= zoom /\ zoom <= ZoomMax)
    /\ [][ (\/ last' = "IncrementZoom" /\ zoom >= ZoomIncLimit
            \/ last' = "DecrementZoom" /\ zoom <= ZoomMin)
              => UNCHANGED <<zoom, reloads>> ]_vars

\* An IncrementZoom was handled at the upper limit and queued nothing.
C10_Witness ==
    /\ last = "IncrementZoom"
    /\ zoom >= ZoomIncLimit
    /\ reloads = 0

\* C11: when the PNG encoding of pages fails during a render pass, the pass
\* still delivers one record per page of its document, each with the geometry
\* of its page; the record of a failed page has no pixels, and every other
\* page of the range has its pixels, rendered at twice the zoom of the pass.
C11_FailureDegradesOnePage ==
    pages # None =>
        LET task == rendered[1]
            doc == task.document
        IN  /\ Len(pages[1]) = Len(doc)
            /\ \A k \in IndicesOf(doc) :
                  /\ pages[1][k + 1].height = doc[k + 1].height
                  /\ pages[1][k + 1].width = doc[k + 1].width
                  /\ k \in task.failed => pages[1][k + 1].bytes = None
                  /\ k \in Rasterized(task) \ task.failed =>
                        pages[1][k + 1].bytes = Some(Render(doc[k + 1], 2 * task.zoom))

\* A pass delivered its result with one page failed and another rasterized.
C11_Witness ==
    /\ pages # None
    /\ last \in {"PagesReloaded", "PagesReloaded: overtaken"}
    /\ rendered[1].failed # {}
    /\ Rasterized(rendered[1]) \ rendered[1].failed # {}
    /\ Len(pages[1]) = Len(rendered[1].document)

-----------------------------------------------------------------------------
\* The root of the project is a component-wise prefix of the path.
UnderRoot(path, root) ==
    /\ Len(root) <= Len(path)
    /\ \A i \in 1..Len(root) : path[i] = root[i]

\* The components of the path that follow the root.
Remainder(path, root) == [i \in 1..(Len(path) - Len(root)) |-> path[Len(root) + i]]

\* C19 as stated: for every path under the root, the path built from the id
\* of the path is the path.
C19_RoundTrip ==
    (disk_path # None /\ UnderRoot(file_path[1], current_dir)) =>
        disk_path[1] = file_path[1]

\* No ParentDir of the path follows a Normal name of its remainder.
IsNormalized(path, root) ==
    LET rest == Remainder(path, root)
    IN  \A i \in 2..Len(rest) : rest[i] = ParentDir => rest[i - 1] = ParentDir

\* C19 amended: for every path under the root whose remainder is normalized,
\* the path built from the id of the path is the path.
C19_RoundTripNormalized ==
    (disk_path # None /\ UnderRoot(file_path[1], current_dir)
        /\ IsNormalized(file_path[1], current_dir)) =>
            disk_path[1] = file_path[1]

\* The path of a file two directories below the root went to an id and back.
C19_Witness ==
    /\ disk_path # None
    /\ UnderRoot(file_path[1], current_dir)
    /\ IsNormalized(file_path[1], current_dir)
    /\ Len(Remainder(file_path[1], current_dir)) >= 2
    /\ Len(current_dir) >= 2
    /\ disk_path[1] = file_path[1]

\* C20: get_relative_path returns None exactly when the root is no
\* component-wise prefix of the path, otherwise the root marker followed by
\* the remaining components (the root marker alone for the root itself);
\* id_from_path returns None in the same cases, and paths with the same
\* remainder get the same id.
C20_RelativePath ==
    relative_path # None =>
        LET path == file_path[1]
        IN  /\ relative_path[1] = None <=> ~UnderRoot(path, current_dir)
            /\ file_id[1] = None <=> relative_path[1] = None
            /\ UnderRoot(path, current_dir) =>
                  /\ relative_path[1] = Some(<<RootDir>> \o Remainder(path, current_dir))
                  /\ path = current_dir => relative_path[1] = Some(<<RootDir>>)
                  /\ \A root \in ProjectRoots :
                        file_id[1] = id_from_path(root \o Remainder(path, current_dir), root)

\* A path below a project directory got its relative path and its id.
C20_Witness ==
    /\ relative_path # None
    /\ relative_path[1] # None
    /\ file_id[1] # None
    /\ Len(current_dir) >= 2
    /\ Len(Remainder(file_path[1], current_dir)) >= 2

-----------------------------------------------------------------------------
\* An entry was put under the id handled last, as an asset.
AssetInserted ==
    \/ handled.op = "add_asset"
    \/ handled.op = "add_file" /\ handled.kind = "Asset"

\* C12: after any sequence of operations on the world no id has both a
\* Source and an asset, and an id an asset was just inserted under does not
\* resolve through source(id).
C12_OneEntryPerId ==
    /\ \A id \in ViewIds : ~(Answers.source[id].ok /\ Answers.file[id].ok)
    /\ AssetInserted => ~Answers.source[handled.id].ok

\* C13: add_source(id, Source(id, text)) leaves source(id) answering that
\* source, whatever entry the id had, and changes no answer for another id,
\* no file(id) and no main(); when the id had that very source before, the
\* world answers as before.
C13_UpsertIdempotent ==
    handled.op = "add_source" =>
        /\ Answers.source[handled.id] = Ok(SourceNew(handled.id, handled.text))
        /\ \A id \in ViewIds \ {handled.id} :
              Answers.source[id] = handled.before.source[id]
        /\ Answers.file = handled.before.file
        /\ Answers.main = handled.before.main
        /\ handled.before.source[handled.id] = Ok(SourceNew(handled.id, handled.text))
              => Answers = handled.before

\* A source was inserted under an id that had a source with another text.
C13_Witness ==
    /\ handled.op = "add_source"
    /\ handled.before.source[handled.id].ok
    /\ handled.before.source[handled.id].value.text # handled.text
    /\ Answers.source[handled.id].value.text = handled.text

\* C14: reload_source_from_content(id, content) gives the Source of id the
\* text of the content and keeps its id; every other answer of the world is
\* as before. For an id with no Source the world answers as before.
C14_ReloadReplacesText ==
    handled.op = "reload_source_from_content" =>
        /\ IF handled.before.source[handled.id].ok
           THEN Answers.source[handled.id] =
                    Ok([id   |-> handled.before.source[handled.id].value.id,
                        text |-> ContentText(handled.content)])
           ELSE Answers.source[handled.id] = handled.before.source[handled.id]
        /\ \A id \in ViewIds \ {handled.id} :
              Answers.source[id] = handled.before.source[id]
        /\ Answers.file = handled.before.file
        /\ Answers.main = handled.before.main

\* The text of a Source was replaced by another one.
C14_Witness ==
    /\ handled.op = "reload_source_from_content"
    /\ handled.before.source[handled.id].ok
    /\ Answers.source[handled.id] # handled.before.source[handled.id]

\* C15: after remove_file(id) both source(id) and file(id) are NotFound;
\* every other id answers as before and so does main(); removing the id once
\* more, or removing an id that had no entry, changes no answer.
C15_DeletionConsistency ==
    handled.op = "remove_file" =>
        /\ Answers.source[handled.id] = NotFound(handled.id)
        /\ Answers.file[handled.id] = NotFound(handled.id)
        /\ \A id \in ViewIds \ {handled.id} :
              /\ Answers.source[id] = handled.before.source[id]
              /\ Answers.file[id] = handled.before.file[id]
        /\ Answers.main = handled.before.main
        /\ View(remove_file(heap, typst, handled.id), typst) = Answers
        /\ (~handled.before.source[handled.id].ok /\ ~handled.before.file[handled.id].ok)
              => Answers = handled.before

\* An id that had an asset was removed.
C15_Witness ==
    /\ handled.op = "remove_file"
    /\ handled.before.file[handled.id].ok
    /\ ~Answers.file[handled.id].ok

\* C18: the world a task owns answers what it answered when the task was
\* dispatched, whatever was done to the world of the session since, and a
\* task that finishes leaves the answers of the world of the session as
\* they were.
C18_CloneIsIndependent ==
    /\ \A i \in 1..Len(tasks) : View(heap, tasks[i].world) = tasks[i].seen
    /\ handled.op = "task done" => Answers = handled.before

\* A task holds a world that still answers as at its dispatch, while the
\* sources of the world of the session have changed since.
C18_Witness ==
    \E i \in 1..Len(tasks) :
        /\ View(heap, tasks[i].world) = tasks[i].seen
        /\ tasks[i].seen.source # Answers.source

-----------------------------------------------------------------------------
\* C16: change_main checks nothing.  ChangeMainFile with a path under the
\* root of the project makes the id of the path the main file, whether the
\* world holds an entry for it or not, and reports nothing; with a path that
\* is not under the root it leaves the main file as it is and sends the
\* warning "Can't change main file".  Neither changes an entry of the world,
\* and no other message changes the main file.
C16_ChangeMainUnchecked ==
    [][ /\ handled'.op = "ChangeMainFile" =>
             /\ FilesOf(heap', typst') = FilesOf(heap, typst)
             /\ IF UnderRoot(handled'.path, current_dir)
                THEN /\ main(heap', typst') = id_from_path(handled'.path, current_dir)[1]
                     /\ \A i \in 1..Len(queue') : queue'[i].msg = "ShowPopUp" =>
                            \E j \in 1..Len(queue) : queue[j] = queue'[i]
                ELSE /\ main(heap', typst') = main(heap, typst)
                     /\ queue' # <<>>
                     /\ queue'[Len(queue')] = EditorMessage("ShowPopUp",
                            PopUpElementNew(Warning, "Can't change main file",
                                            handled'.path))
        /\ main(heap', typst') # main(heap, typst) => handled'.op = "ChangeMainFile"
      ]_vars

\* ChangeMainFile has made main the id of a file that the world holds no
\* entry for.
C16_Witness ==
    /\ handled.op = "ChangeMainFile"
    /\ UnderRoot(handled.path, handled.dir)
    /\ main(heap, typst) = GhostId
    /\ ~source(heap, typst, GhostId).ok
    /\ ~file(heap, typst, GhostId).ok

\* C17: a preview of a world whose main file has no Source fails: the error
\* is a CompilationError caused by NotFound of the main file, it is sent to
\* the diagnostics panel, which then shows it, and neither step changes the
\* pages on screen, what the world of the session answers, the buffers or
\* the current buffer.
C17_MissingMainFailsPreview ==
    [][ /\ (handled'.op = "SvgGenerated"
              /\ ~handled'.seen.source[handled'.seen.main].ok) =>
             /\ ~handled'.result.ok
             /\ handled'.result.error.kind = "CompilationError"
             /\ handled'.result.error.cause = NotFound(handled'.seen.main)
             /\ queue' = Append(queue, EditorMessage("ShowErrors",
                            DebugZoneNew(ErrToString(handled'.result.error))))
             /\ handle' = handle
             /\ View(heap', typst') = View(heap, typst)
             /\ buffers' = buffers
             /\ current' = current
        /\ handled'.op = "ShowErrors" =>
             /\ debug' = Some(handled'.zone)
             /\ handle' = handle
             /\ View(heap', typst') = View(heap, typst)
             /\ buffers' = buffers
             /\ current' = current
      ]_vars

\* The diagnostics panel shows that the main file was not found, the main
\* file being one the world holds as an asset only.
C17_Witness ==
    /\ handled.op = "ShowErrors"
    /\ debug = Some(DebugZoneNew(ErrToString(
                  [kind |-> "CompilationError", cause |-> NotFound(main(heap, typst))])))
    /\ file(heap, typst, main(heap, typst)).ok
    /\ ~source(heap, typst, main(heap, typst)).ok

-----------------------------------------------------------------------------
\* C30: the page cache changes only when PagesReloaded is handled, and what
\* PagesReloaded leaves is a vector with one record for each page of the
\* document the task rendered, in page order, each with the width and the
\* height of its page; IncrementZoom, DecrementZoom, Scrolled and ReloadPages
\* leave the cache as it is.
C30_CacheReplacedWholesale ==
    [][ /\ pages' # pages => last' \in {"PagesReloaded", "PagesReloaded: overtaken"}
        /\ last' \in {"PagesReloaded", "PagesReloaded: overtaken"} =>
             /\ pages' # None
             /\ Len(pages'[1]) = Len(rendered'[1].document)
             /\ \A i \in 1..Len(pages'[1]) :
                    /\ pages'[1][i].width = rendered'[1].document[i].width
                    /\ pages'[1][i].height = rendered'[1].document[i].height
      ]_vars

\* A delivered vector holds both pages of its document while only one of
\* them was in the range, and the cache is that vector.
C30_Witness ==
    /\ last = "PagesReloaded"
    /\ pages # None
    /\ Len(rendered[1].document) = 2
    /\ Len(pages[1]) = 2
    /\ \E i, j \in 1..2 : pages[1][i].bytes = None /\ pages[1][j].bytes # None
    /\ pages[1][1].height # pages[1][2].height

-----------------------------------------------------------------------------
\* The root paths of a list of projects, and the list without the entry of
\* a root path.
RootPaths(projects) == { projects[i].root_path : i \in 1..Len(projects) }
Without(projects, root_path) == SelectSeq(projects, LAMBDA p : p.root_path # root_path)

\* The list of recent projects, as get_recent_paths reads it.
Recent == get_recent_paths(disk)

\* C24: after any calls of cache_project from an empty cache the list of
\* recent projects has at most 5 entries and no two entries with one root
\* path; after a call that wrote the file the project of the call is at
\* index 0, and the entries after it are entries the list had before the
\* call, in the order they had.
C24_RecentListInvariant ==
    /\ Len(Recent) <= MAX_CACHED_PROJECTS
    /\ \A i, j \in 1..Len(Recent) : Recent[i].root_path = Recent[j].root_path => i = j
    /\ (handled.op = "cache_project" /\ handled.written) =>
          /\ Recent # <<>>
          /\ Recent[1] = handled.project
          /\ \E n \in 0..Len(handled.before) :
                SubSeq(Recent, 2, Len(Recent))
                    = Without(SubSeq(handled.before, 1, n), handled.project.root_path)

\* C25: a call of cache_project for a project whose root path is in the list
\* leaves the project at index 0, the same root paths and the same length;
\* a call evicts an entry only when the list is full and the root path of
\* the project is not in it, and the entry it evicts is the oldest one.
C25_RecacheKeepsTheOthers ==
    (handled.op = "cache_project" /\ handled.written) =>
        LET before == handled.before
            root_path == handled.project.root_path
        IN  /\ root_path \in RootPaths(before) =>
                  /\ Recent[1].root_path = root_path
                  /\ RootPaths(Recent) = RootPaths(before)
                  /\ Len(Recent) = Len(before)
            /\ RootPaths(before) \ RootPaths(Recent) # {} =>
                  /\ Len(before) = MAX_CACHED_PROJECTS
                  /\ root_path \notin RootPaths(before)
                  /\ RootPaths(before) \ RootPaths(Recent)
                         = { before[Len(before)].root_path }

-----------------------------------------------------------------------------
\* C26: TideWorld::new never aborts, whatever the directory of the user's
\* fonts holds; the fonts of the world are the bundled fonts, at the indices
\* they always have, followed by the fonts of the user; and no operation of
\* the world changes the fonts, nor does a clone have other fonts.
C26_FontCatalogAlwaysBuilt ==
    /\ [](/\ ~Panicked
          /\ SubSeq(typst.fonts, 1, Len(default_fonts)) = default_fonts
          /\ \A i \in 1..Len(tasks) : tasks[i].world.fonts = typst.fonts)
    /\ [][handled'.op # "TideWorld::new" => typst'.fonts = typst.fonts]_vars

-----------------------------------------------------------------------------
\* C28: a compile that fails asks for its error to be shown in the debug
\* zone and leaves the displayed preview, the world, the buffers and the
\* current file as they are; the pages of a compile that succeeds replace
\* the displayed preview and the debug zone is asked to hide; and once no
\* compile result is left to handle, the debug zone is visible only if the
\* compile requested last failed.
CompileResultPending ==
    \/ \E i \in 1..Len(tasks) : tasks[i].kind \in {"preview_svg", "svg_handles"}
    \/ \E i \in 1..Len(queue) : queue[i].msg \in {"ShowErrors", "HideErrors", "PreviewLoaded"}

C28_DebugZoneFollowsLastCompile ==
    /\ []((~CompileResultPending /\ debug # None) => last_compile = Some(FALSE))
    /\ [][/\ (handled'.op = "SvgGenerated" /\ ~handled'.result.ok) =>
             /\ Len(queue') > 0
             /\ queue'[Len(queue')] = EditorMessage("ShowErrors",
                     DebugZoneNew(ErrToString(handled'.result.error)))
             /\ handle' = handle
             /\ typst' = typst
             /\ Answers' = Answers
             /\ buffers' = buffers
             /\ current' = current
          /\ (handled'.op = "PreviewLoaded") =>
             /\ handle' # None
             /\ Len(queue') > 0
             /\ queue'[Len(queue')] = EditorMessage("HideErrors", None)]_vars

-----------------------------------------------------------------------------
\* C21: Upload of a chosen file whose name already exists in the project
\* directory asks for the error pop-up "Can't upload file" and leaves the
\* sources and assets of the world, the file tree and the files on disk as
\* they are.
UploadTarget(chosen) == Append(current_dir, chosen[1][Len(chosen[1])])

UploadRejected ==
    EditorMessage("ShowPopUp",
        PopUpElementNew(Error, "Can't upload file",
            <<"File with the same name already exists in the project.">>))

C21_UploadOfExistingNameRejected ==
    [][(/\ handled'.op = "Upload"
        /\ handled'.chosen # None
        /\ UploadTarget(handled'.chosen) \in DOMAIN disk) =>
           /\ queue' = Append(queue, UploadRejected)
           /\ FilesOf(heap, typst)' = FilesOf(heap, typst)
           /\ typst' = typst
           /\ file_tree' = file_tree
           /\ disk' = disk]_vars

\* A file chosen outside the project, whose name a file of the project
\* has, was refused while the file tree shows the files of the project.
C21_Witness ==
    /\ handled.op = "Upload"
    /\ handled.chosen = Some(OutsidePath)
    /\ Len(queue) > 0
    /\ queue[Len(queue)] = UploadRejected
    /\ file_tree.files = Some(<<LogoPath, MainPath>>)
    /\ disk = DiskFiles

-----------------------------------------------------------------------------
\* C22: delete_file asks the disk first.  When the disk refuses, the error
\* is returned and the open buffers, the sources and assets of the world
\* and the disk are as they were; when the disk lets the file go, the world
\* has neither a source nor an asset for the id, no buffer is open for it
\* and the file is no longer on disk.
C22_DeleteFileDiskFirst ==
    [][handled'.op = "pop_up::DeleteFile" =>
          IF handled'.result.ok
          THEN /\ handled'.id \notin DOMAIN FilesOf(heap, typst)'.sources
               /\ handled'.id \notin DOMAIN FilesOf(heap, typst)'.assets
               /\ handled'.id \notin DOMAIN buffers'
               /\ DiskPath(handled'.id, current_dir) \in DOMAIN disk
               /\ DiskPath(handled'.id, current_dir) \notin DOMAIN disk'
          ELSE /\ buffers' = buffers
               /\ FilesOf(heap, typst)' = FilesOf(heap, typst)
               /\ disk' = disk
               /\ file_tree' = file_tree]_vars

\* The file being edited, a source of the world with an open buffer, has
\* been deleted.
C22_Witness ==
    /\ handled.op = "pop_up::DeleteFile"
    /\ handled.result.ok
    /\ current.file_id = Some(handled.id)
    /\ handled.id = id_from_path(MainPath, current_dir)[1]
    /\ MainPath \notin DOMAIN disk
    /\ handled.id \notin DOMAIN buffers

-----------------------------------------------------------------------------
\* C23: when a deletion confirmed in the Confirm pop-up fails on disk, the
\* pop-up displayed once the request that the failure sends has been
\* handled is the Error pop-up "Can't delete file!" with the error text.
C23_FailedDeletionDisplayed ==
    (handled.op = "ShowPopUp" /\ handled.element.title = "Can't delete file!") =>
        pop_up = Some(handled.element)

-----------------------------------------------------------------------------
\* C27: when ForcePreview, the Save of the toolbar, Ctrl+S or Autocomplete
\* is handled while the current file has a Source in the world, the text of
\* that Source is afterwards the text of the current buffer, and the world
\* a preview task is given, cloned after the flush, answers with the same
\* text; an action of the text editor alone leaves the world as it is.
Flushes == {"ForcePreview", "SaveFile", "Ctrl+S", "Autocomplete"}

CurrentHasSource ==
    /\ current.file_id # None
    /\ current.file_id[1] \in DOMAIN FilesOf(heap, typst).sources

WorldText == source(heap, typst, current.file_id[1]).value.text

C27_BufferFlushedBeforeCompile ==
    [][/\ (handled'.op \in Flushes /\ CurrentHasSource) =>
             /\ WorldText' = ContentText(current.buffer.content)
             /\ (handled'.op \in {"ForcePreview", "Ctrl+S"}) =>
                    \E i \in (Len(tasks) + 1)..Len(tasks') :
                       /\ tasks'[i].kind = "preview_svg"
                       /\ source(heap', tasks'[i].world, current.file_id[1]).value.text =
                              ContentText(current.buffer.content)
       /\ (handled'.op = "ActionPerformed") =>
             FilesOf(heap, typst)' = FilesOf(heap, typst)]_vars

\* Ctrl+S after an edit of the main file: the world of the session and the
\* world of the preview task hold the edited text, the disk still the old.
C27_Witness ==
    /\ handled.op = "Ctrl+S"
    /\ CurrentHasSource
    /\ current.buffer.content = <<"= C", "">>
    /\ source(heap, typst, current.file_id[1]).value.text = <<"= C", "">>
    /\ \E i \in 1..Len(tasks) :
          /\ tasks[i].kind = "preview_svg"
          /\ source(heap, tasks[i].world, current.file_id[1]).value.text = <<"= C", "">>
    /\ disk[MainPath] = <<"= A">>

-----------------------------------------------------------------------------
\* C29: whenever the current buffer is marked as saved, its text is the
\* content of the current file on disk, that is, what was last read from
\* the file or last written to it.
C29_SavedFlagTruthful ==
    (current.file_id # None /\ current.buffer.is_saved) =>
        /\ DiskPath(current.file_id[1], current_dir) \in DOMAIN disk
        /\ ContentText(current.buffer.content) =
              ContentText(disk[DiskPath(current.file_id[1], current_dir)])

-----------------------------------------------------------------------------
\* C31: while the document has no page, ReloadPages dispatches no fetch and
\* the page cache holds no page with pixels, whatever the zoom, the offset,
\* the range and the cache were before.
NoRenderedPage ==
    pages # None => \A i \in 1..Len(pages[1]) : pages[1][i].bytes = None

C31_EmptyDocumentNeverRendered ==
    /\ [](document = <<>> => NoRenderedPage)
    /\ [][(document = <<>> /\ reloads' < reloads) => fetching' = fetching]_vars

-----------------------------------------------------------------------------
\* C32: a Scrolled whose offset is at most 50 away from the recorded offset
\* changes nothing of the preview and sends no ReloadPages; one that is
\* further away records the offset and the viewport height it reports and
\* sends ReloadPages; so after every Scrolled the recorded offset is at most
\* 50 away from the offset reported last.
C32_ScrollThreshold ==
    /\ [](last = "Scrolled" => Abs(handled.new_offset - offset) <= SCROLL_RELOAD_DELAY)
    /\ [][last' = "Scrolled" =>
             IF Abs(handled'.new_offset - offset) <= SCROLL_RELOAD_DELAY
             THEN UNCHANGED <<zoom, offset, viewport_h, pages_to_render, pages, reloads,
                              fetching>>
             ELSE /\ offset' = handled'.new_offset
                  /\ viewport_h' = handled'.new_viewport_h
                  /\ reloads' = reloads + 1
                  /\ UNCHANGED <<zoom, pages_to_render, pages, fetching>>]_vars

\* A scroll to 51 was recorded with its viewport height; the scroll to 101
\* that follows, with another viewport height, has changed nothing.
C32_Witness ==
    /\ last = "Scrolled"
    /\ handled.new_offset = 101
    /\ handled.new_viewport_h = 200
    /\ offset = 51
    /\ viewport_h = 100
    /\ reloads = 0

-----------------------------------------------------------------------------
\* C33: when no fetch is in flight, the cache is present and the result
\* handled last was not overtaken by a later one (as it is when results
\* arrive in the order of their dispatch), the pages with pixels are those
\* whose index lies in pages_to_render, less the pages whose encoding
\* failed, and they were rendered for the range pages_to_render holds; and
\* pages_to_render changes only in the step that dispatches a fetch.
C33_CacheMatchesStoredRange ==
    /\ []((fetching = <<>> /\ pages # None /\ ~rendered[1].overtaken) =>
            /\ rendered[1].pages_to_render = pages_to_render
            /\ \A i \in 1..Len(pages[1]) :
                  pages[1][i].bytes # None <=>
                     /\ (i - 1) >= pages_to_render[1]
                     /\ (i - 1) <= pages_to_render[2]
                     /\ (i - 1) \notin rendered[1].failed)
    /\ [][pages_to_render' # pages_to_render =>
             /\ last' = "ReloadPages: perform reload"
             /\ fetching' = Append(fetching, FetchTask(pages_to_render'))]_vars

\* The second page of a document is the only one in the range and the only
\* one with pixels, the result handled last not being an overtaken one.
C33_Witness ==
    /\ fetching = <<>>
    /\ pages # None
    /\ last = "PagesReloaded"
    /\ ~rendered[1].overtaken
    /\ pages_to_render = <<1, 2>>
    /\ Len(pages[1]) = 2
    /\ pages[1][1].bytes = None
    /\ pages[1][2].bytes # None

-----------------------------------------------------------------------------
\* C34: the range compute_pages_to_render returns, which ReloadPages keeps
\* in pages_to_render, has its first index at most its last index, and for
\* a document with pages both are indices of pages of the document.
C34_RangeWithinDocument ==
    last = "ReloadPages: perform reload" =>
        /\ pages_to_render = compute_pages_to_render(document, zoom, offset, viewport_h)
        /\ pages_to_render[1] <= pages_to_render[2]
        /\ document # <<>> => pages_to_render[2] < Len(document)

-----------------------------------------------------------------------------
\* C35: ShowPopUp displays its element when no pop-up is displayed and
\* leaves the displayed pop-up as it is otherwise; HidePopUp clears the
\* pop-up; and neither changes the world, the buffers, the current buffer
\* or the preview.
C35_OnePopUpAtATime ==
    [][handled'.op \in {"ShowPopUp", "HidePopUp"} =>
          /\ pop_up' = IF handled'.op = "HidePopUp" THEN None
                       ELSE IF pop_up = None THEN Some(handled'.element)
                       ELSE pop_up
          /\ UNCHANGED <<typst, heap, buffers, current, handle, debug, disk, file_tree,
                         renderVars>>]_vars

\* The request for the Error pop-up of a failed deletion was dropped, the
\* Confirm pop-up being displayed.
C35_Witness ==
    /\ handled.op = "ShowPopUp"
    /\ handled.element.pop_type = Error
    /\ pop_up # None
    /\ pop_up[1].pop_type[1] = "Confirm"

-----------------------------------------------------------------------------
\* C36: a ChangeCurrentFile for a file of the project, handled while a file
\* is current, leaves the text of the current buffer in the buffer of that
\* file in the map and, if the file is a source of the world, in the world;
\* the buffer of a file that is not current is never changed; and a file
\* becomes current only with the text its buffer in the map holds, the
\* buffer being in the map before.  So the text a file had when it was left
\* is the text it has when it is current again.
LeftText == ContentText(current.buffer.content)

-----------------------------------------------------------------------------
\* C37: once delete_file(id) has succeeded, the world has neither a source
\* nor an asset for id, no buffer is open for it, and it is not the current
\* file, so that nothing later writes the file back.
C37_DeletedFileUnreferenced ==
    (handled.op = "pop_up::DeleteFile" /\ handled.result.ok) =>
        /\ handled.id \notin DOMAIN FilesOf(heap, typst).sources
        /\ handled.id \notin DOMAIN FilesOf(heap, typst).assets
        /\ handled.id \notin DOMAIN buffers
        /\ current.file_id # Some(handled.id)

-----------------------------------------------------------------------------
\* C38: once OpenProject(root) has been handled, every source and every
\* asset of the world is a file loaded from under root, and no buffer and
\* no current file belongs to a file that is not.
LoadedIds == { imported.file_id : imported \in load_repo(disk, current_dir, current_dir) }

C38_OnlyFilesOfOpenedProject ==
    handled.op = "OpenProject" =>
        /\ DOMAIN FilesOf(heap, typst).sources \subseteq LoadedIds
        /\ DOMAIN FilesOf(heap, typst).assets \subseteq LoadedIds
        /\ DOMAIN buffers \subseteq LoadedIds
        /\ current.file_id # None => current.file_id[1] \in LoadedIds

-----------------------------------------------------------------------------
\* C39: from the split positions (250, 800), after any sequence of
\* ResizeTree and ResizePreview messages, 100 <= tree_width <=
\* min(preview_offset, 500) and max(tree_width, 200) <= preview_offset <= 1500
\* hold, and no clamp has been given a lower bound above its upper bound.
C39_SplitsStayOrdered ==
    /\ ~ResizePanicked
    /\ 100 <= split_at[1]
    /\ split_at[1] <= Min(split_at[2], 500)
    /\ Max(split_at[1], 200) <= split_at[2]
    /\ split_at[2] <= 1500

\* The preview split stands at its least position and the tree split, dragged
\* beyond every limit, was stopped by it.
C39_Witness ==
    /\ handled.op = "ResizeTree"
    /\ handled.split_at > 1500
    /\ handled.result.ok
    /\ split_at = <<200, 200>>

====
